---- MODULE Spec2Model ----
(***************************************************************************)
(* Model of the bld orchestrator (main) and of its repair loop             *)
(* (makeTargetBuild): for every model a branch and a worktree are ensured, *)
(* then every target is repaired in that worktree by aider, validated by   *)
(* 'bazel query' and 'bazel build', rolled back by 'git stash' on failure  *)
(* and committed on success.  Every external command is one step of the    *)
(* model; its exit status is a nondeterministic input.                     *)
(***************************************************************************)
EXTENDS Integers, Sequences, FiniteSets

\* ------------------------------------------------------------------------
\* Bounds and program constants
\* ------------------------------------------------------------------------

\* Number of entries of the models list that are run (a prefix of the list).
NumModels == 2

\* Number of entries of the targets list that are run (a prefix of the list).
NumTargets == 2

\* const maxAttempts = 5
maxAttempts == 5

\* The package of each configured target, in list order: two targets have
\* the same number when they live in the same package (same BUILD.bazel).
targets == <<1, 1, 2, 3, 4, 5, 6, 7, 8, 9, 10, 10>>

\* ------------------------------------------------------------------------
\* Names.  A string is the tuple of its characters, so that the functions
\* that build and rewrite names are computed character by character.
\* ------------------------------------------------------------------------

\* var models: the configured model names, in list order
models ==
    <<<<"a", "n", "t", "h", "r", "o", "p", "i", "c", "/", "c", "l", "a",
        "u", "d", "e", "-", "s", "o", "n", "n", "e", "t", "-", "4">>,
      <<"g", "o", "o", "g", "l", "e", "/", "g", "e", "m", "i", "n", "i",
        "-", "2", ".", "5", "-", "f", "l", "a", "s", "h">>,
      <<"o", "p", "e", "n", "a", "i", "/", "g", "p", "t", "-", "4", ".",
        "1", "-", "m", "i", "n", "i">>,
      <<"g", "o", "o", "g", "l", "e", "/", "g", "e", "m", "i", "n", "i",
        "-", "2", ".", "5", "-", "p", "r", "o">>,
      <<"o", "p", "e", "n", "a", "i", "/", "g", "p", "t", "-", "5">>,
      <<"q", "w", "e", "n", "/", "q", "w", "e", "n", "3", "-", "c", "o",
        "d", "e", "r">>,
      <<"o", "p", "e", "n", "r", "o", "u", "t", "e", "r", "/", "s", "o",
        "n", "o", "m", "a", "-", "s", "k", "y", "-", "a", "l", "p", "h",
        "a">>,
      <<"d", "e", "e", "p", "s", "e", "e", "k", "/", "d", "e", "e", "p",
        "s", "e", "e", "k", "-", "c", "h", "a", "t", "-", "v", "3", ".",
        "1">>,
      <<"x", "-", "a", "i", "/", "g", "r", "o", "k", "-", "c", "o", "d",
        "e", "-", "f", "a", "s", "t", "-", "1">>,
      <<"x", "-", "a", "i", "/", "g", "r", "o", "k", "-", "4">>>>

\* var targets: the configured target labels, in list order
targetLabels ==
    <<<<"/", "/", "c", "r", "a", "t", "e", "s", "/", "m", "a", "t", "c",
        "h", "e", "r", ":", "g", "r", "e", "p", "_", "m", "a", "t", "c",
        "h", "e", "r">>,
      <<"/", "/", "c", "r", "a", "t", "e", "s", "/", "m", "a", "t", "c",
        "h", "e", "r", ":", "i", "n", "t", "e", "g", "r", "a", "t", "i",
        "o", "n", "_", "t", "e", "s", "t">>,
      <<"/", "/", "c", "r", "a", "t", "e", "s", "/", "g", "l", "o", "b",
        "s", "e", "t", ":", "g", "l", "o", "b", "s", "e", "t">>,
      <<"/", "/", "c", "r", "a", "t", "e", "s", "/", "c", "l", "i", ":",
        "g", "r", "e", "p", "_", "c", "l", "i">>,
      <<"/", "/", "c", "r", "a", "t", "e", "s", "/", "r", "e", "g", "e",
        "x", ":", "g", "r", "e", "p", "_", "r", "e", "g", "e", "x">>,
      <<"/", "/", "c", "r", "a", "t", "e", "s", "/", "s", "e", "a", "r",
        "c", "h", "e", "r", ":", "g", "r", "e", "p", "_", "s", "e", "a",
        "r", "c", "h", "e", "r">>,
      <<"/", "/", "c", "r", "a", "t", "e", "s", "/", "p", "c", "r", "e",
        "2", ":", "g", "r", "e", "p", "_", "p", "c", "r", "e", "2">>,
      <<"/", "/", "c", "r", "a", "t", "e", "s", "/", "i", "g", "n", "o",
        "r", "e", ":", "i", "g", "n", "o", "r", "e">>,
      <<"/", "/", "c", "r", "a", "t", "e", "s", "/", "p", "r", "i", "n",
        "t", "e", "r", ":", "g", "r", "e", "p", "_", "p", "r", "i", "n",
        "t", "e", "r">>,
      <<"/", "/", "c", "r", "a", "t", "e", "s", "/", "g", "r", "e", "p",
        ":", "g", "r", "e", "p">>,
      <<"/", "/", ":", "r", "i", "p", "g", "r", "e", "p">>,
      <<"/", "/", ":", "i", "n", "t", "e", "g", "r", "a", "t", "i", "o",
        "n", "_", "t", "e", "s", "t">>>>


\* the provider prefix "openrouter/" main puts before every model name
openrouter == <<"o", "p", "e", "n", "r", "o", "u", "t", "e", "r", "/">>

\* (variant: the name is cut at its first unsafe character)
sanitizePath_Cut(s) ==
    IF \E i \in DOMAIN s : s[i] \in {"/", ":"}
      THEN SubSeq(s, 1, (CHOOSE i \in DOMAIN s :
                            /\ s[i] \in {"/", ":"}
                            /\ \A j \in 1..(i - 1) : s[j] \notin {"/", ":"}) - 1)
      ELSE s

\* sanitizePath: every "/" and every ":" is replaced by "-"
sanitizePath(s) ==
    [i \in DOMAIN s |-> IF s[i] \in {"/", ":"} THEN "-" ELSE s[i]]

\* llmModel := "openrouter/" + model
llmModel(model) == openrouter \o model

\* modelBranch := branch + "-" + sanitizePath("openrouter/" + model)
modelBranch(branch, model) ==
    branch \o <<"-">> \o sanitizePath(openrouter \o model)

\* filepath.Clean, for paths without "." and ".." elements: repeated
\* separators become one, a trailing separator is dropped
RECURSIVE Clean(_)
Clean(p) ==
    IF Len(p) < 2 THEN p
    ELSE IF p[1] = "/" /\ p[2] = "/" THEN Clean(Tail(p))
    ELSE IF Len(p) = 2 /\ p[2] = "/" THEN <<p[1]>>
    ELSE <<p[1]>> \o Clean(Tail(p))

\* filepath.Join(dir, elem)
Join(dir, elem) == Clean(dir \o <<"/">> \o elem)

\* worktreeBaseDir := filepath.Join(homeDir, "worktree")
worktreeBaseDir(homeDir) == Join(homeDir, <<"w", "o", "r", "k", "t", "r", "e", "e">>)

\* worktreePath := filepath.Join(worktreeBaseDir, modelBranch)
worktreePath(homeDir, branch, model) ==
    Join(worktreeBaseDir(homeDir), modelBranch(branch, model))

\* (variant: the message names the model only)
commitMsg_ModelOnly(llm, target) ==
    <<"a", "i", "d", "e", "r", ":", " ", "m", "o", "d", "e", "l", " ">>
      \o llm

\* commitMsg := fmt.Sprintf("aider: model %s target %s", llmModel, target)
commitMsg(llm, target) ==
    <<"a", "i", "d", "e", "r", ":", " ", "m", "o", "d", "e", "l", " ">>
      \o llm \o <<" ", "t", "a", "r", "g", "e", "t", " ">>
      \o target

Models == 1..NumModels

Targets == 1..NumTargets

Pkg(t) == targets[t]

Packages == {Pkg(t) : t \in Targets}

\* ------------------------------------------------------------------------
\* State
\* ------------------------------------------------------------------------
VARIABLES
    pc,         \* the statement the single thread of control is at
    mi,         \* index of the current model in the models list
    ti,         \* index of the current target in the targets list
    attempt,    \* the attempt variable of makeTargetBuild's for loop
    n,          \* commands issued by the current makeTargetBuild call, by kind
    pre,        \* what the pre-check of the current makeTargetBuild call found
    result,     \* the (bool, error) the current makeTargetBuild call returned
    outcome,    \* current model, per target: the (bool, error) its call returned
    issued,     \* current model, per target: was an external command issued
    commits,    \* messages of the commits added to the current model's branch
    branches,   \* models whose branch exists in the repository
    worktrees,  \* models whose worktree path exists on disk
    tree,       \* the working tree of the current model's worktree
    exitCode,   \* the process exit code, -1 while running
    last,       \* the latest call or command and whether it failed
    log,        \* what the log holds of the latest model's session
    call,       \* the arguments of the current makeTargetBuild call
    trail,      \* the commands of the current stage (pre-check or attempt)
    ensured,    \* per model: calls of the two ensure functions in this run
    h           \* inputs and results of the functions applied on their own

vars == <<pc, mi, ti, attempt, n, pre, result, outcome, issued, commits,
          branches, worktrees, tree, exitCode, last, log, call, trail,
          ensured, h>>

\* The (bool, error) pairs makeTargetBuild returns; err names the return
\* statement that built the error, "nil" is the nil error.
Errs == {"nil", "ensureBuild", "aider", "stash", "add", "status", "commit",
         "maxAttempts"}

NoResult == [success |-> FALSE, err |-> "pending"]

Ok == [success |-> TRUE, err |-> "nil"]

Err(e) == [success |-> FALSE, err |-> e]

\* Counted per call of makeTargetBuild: aider, git stash, git add and git
\* commit commands, the attempts whose query and build both succeeded, the
\* runs of the pre-check (its query), and the entries 'git stash push' added
\* to the repository's stash list.
NoCalls == [agent |-> 0, stash |-> 0, stage |-> 0, commit |-> 0, passed |-> 0,
            precheck |-> 0, pushed |-> 0]

\* The commands makeTargetBuild runs in the worktree
LoopCmds == {"query", "build", "agent", "stash", "stage", "status", "commit"}

\* The calls main makes before the target loop of a model
MainCalls == {"getwd", "getbranch", "homedir", "ensureBranch",
              "ensureWorktree"}

\* A completed command: its name, its exit status, and what its output
\* said where the output tells two cases of one exit status apart
Noted(c, failed, note) == [cmd |-> c, failed |-> failed, note |-> note]

Did(c, failed) == Noted(c, failed, "none")

\* A command as run by makeTargetBuild: its name, its exit status and its
\* working directory (cmd.Dir)
Ran(c, failed, dir) == [cmd |-> c, failed |-> failed, dir |-> dir]

\* (variant: every call is given the worktree of the first model)
callArgs_FirstWorktree(m, t) ==
    [worktreePath |-> m - (m - 1), llmModel |-> m, target |-> t]

\* makeTargetBuild(worktreePath, llmModel, target) as main calls it for
\* model m and target t; a worktree path is named by the model it was
\* derived from
callArgs(m, t) == [worktreePath |-> m, llmModel |-> m, target |-> t]

\* The log of a session: per target the outcome lines written for it
\* ("... succeeded for model ... target ..." by makeTargetBuild,
\* "makeTargetBuild failed/did not succeed ..." by main), and the messages
\* of the "Committed changes ..." lines
NoLog == [outcomes |-> [t \in Targets |-> <<>>], commits |-> <<>>]

NoOutcome == [t \in Targets |-> NoResult]

NoneIssued == [t \in Targets |-> FALSE]

\* no model's session has been ensured yet
NoneEnsured == [m \in Models |-> [branch |-> 0, worktree |-> 0]]

\* A BUILD.bazel file: "placeholder" is the untracked file
\* ensureBuildBazelExists wrote, which holds a comment and declares no
\* target; "untracked" is an untracked file with other content.
FileStates == {"absent", "placeholder", "untracked", "clean", "modified"}

Trees == [edits : BOOLEAN, build : [Packages -> FileStates]]

\* A checkout with nothing to commit.
CleanTrees == [edits : {FALSE}, build : [Packages -> {"absent", "clean"}]]

\* ------------------------------------------------------------------------
\* Working tree: what git reports and does
\* ------------------------------------------------------------------------

\* 'git status --porcelain' prints nothing
StatusEmpty(t) ==
    /\ ~t.edits
    /\ \A p \in DOMAIN t.build : t.build[p] \in {"absent", "clean"}

\* (variant: 'git stash push' without -u leaves untracked files in place)
Stashed_TrackedOnly(t) ==
    [edits |-> FALSE,
     build |-> [p \in DOMAIN t.build |->
                  IF t.build[p] = "modified" THEN "clean" ELSE t.build[p]]]

\* 'git stash push -u': tracked changes are reverted, untracked files removed
Stashed(t) ==
    [edits |-> FALSE,
     build |-> [p \in DOMAIN t.build |->
                  CASE t.build[p] \in {"untracked", "placeholder"} -> "absent"
                    [] t.build[p] = "modified" -> "clean"
                    [] OTHER -> t.build[p]]]

\* (variant: tracked and untracked changes are stashed as two entries)
stashPush_Twice(t, exitErr) ==
    IF exitErr \/ StatusEmpty(t) THEN 0 ELSE 2

\* the number of entries 'git stash push -u' adds to the stash list: one
\* when it succeeds on a tree with changes, none when there is nothing to
\* stash or when it fails
stashPush(t, exitErr) ==
    IF exitErr \/ StatusEmpty(t) THEN 0 ELSE 1

\* 'git add -A' followed by a successful 'git commit'
Committed(t) ==
    [edits |-> FALSE,
     build |-> [p \in DOMAIN t.build |->
                  IF t.build[p] \in {"untracked", "placeholder", "modified"}
                    THEN "clean" ELSE t.build[p]]]

\* What a run of aider may leave of the tree: it may edit MODULE.bazel and
\* the BUILD.bazel of the target's package (it never commits:
\* --no-auto-commits).
AiderEdits(t, p) ==
    {u \in Trees :
       /\ u.edits \in {t.edits, TRUE}
       /\ \A q \in DOMAIN t.build :
            IF q = p
              THEN u.build[q] \in
                     {t.build[q],
                      CASE t.build[q] \in {"absent", "placeholder"} ->
                               "untracked"
                        [] t.build[q] = "clean" -> "modified"
                        [] OTHER -> t.build[q]}
              ELSE u.build[q] = t.build[q]}

\* ------------------------------------------------------------------------
\* Session set-up: the two ensure functions, computed as the code does.
\* Each yields the error flag and the new set, given the exit statuses of
\* the existence check and of the creating command.
\* ------------------------------------------------------------------------

\* What an ensure function did: its error, the names that exist afterwards,
\* whether it ran the creating command (tried) and whether that created
\* the name
Ensured(err, set, tried, created) ==
    [err |-> err, set |-> set, tried |-> tried, created |-> created]

\* (variant: 'git branch' is run without asking whether the branch exists;
\* git refuses to create a branch that exists)
createGitBranchIfNotExists_NoCheck(bs, b, checkFailed, createFailed) ==
    IF b \in bs \/ createFailed THEN Ensured(TRUE, bs, TRUE, FALSE)
    ELSE Ensured(FALSE, bs \cup {b}, TRUE, TRUE)

\* createGitBranchIfNotExists
createGitBranchIfNotExists(bs, b, checkFailed, createFailed) ==
    IF checkFailed THEN Ensured(TRUE, bs, FALSE, FALSE)
    ELSE IF b \in bs THEN Ensured(FALSE, bs, FALSE, FALSE)
    ELSE IF createFailed THEN Ensured(TRUE, bs, TRUE, FALSE)
    ELSE Ensured(FALSE, bs \cup {b}, TRUE, TRUE)

\* createGitWorktreeIfNotExists
createGitWorktreeIfNotExists(ws, w, checkFailed, addFailed) ==
    IF checkFailed THEN Ensured(TRUE, ws, FALSE, FALSE)
    ELSE IF w \in ws THEN Ensured(FALSE, ws, FALSE, FALSE)
    ELSE IF addFailed THEN Ensured(TRUE, ws, TRUE, FALSE)
    ELSE Ensured(FALSE, ws \cup {w}, TRUE, TRUE)

\* ------------------------------------------------------------------------
\* Control flow of main: what it does with the error of each call.
\* "die" is log.Fatalf or os.Exit(1); any other value names the next
\* statement.
\* ------------------------------------------------------------------------
afterGetwd(failed) == IF failed THEN "die" ELSE "getbranch"

\* (variant: the error is logged but os.Exit(1) is missing)
afterGetGitBranch_NoExit(failed) == "homedir"

afterGetGitBranch(failed) == IF failed THEN "die" ELSE "homedir"

\* (variant: the error of os.UserHomeDir is not tested)
afterUserHomeDir_Ignored(failed) == "ensureBranch"

afterUserHomeDir(failed) == IF failed THEN "die" ELSE "ensureBranch"

\* (variant: the worktree is not ensured before the target loop)
afterEnsureBranch_SkipWorktree(failed) == IF failed THEN "die" ELSE "callTarget"

afterEnsureBranch(failed) == IF failed THEN "die" ELSE "ensureWorktree"

\* (variant: the error of createGitWorktreeIfNotExists is not tested)
afterEnsureWorktree_Ignored(failed) == "callTarget"

afterEnsureWorktree(failed) == IF failed THEN "die" ELSE "callTarget"

\* (variant: the result is not tested, the target loop always goes on)
afterMakeTargetBuild_KeepGoing(r) == "nextTarget"

\* (variant: an aider error ends the process, as the inline loop of bld.go did)
afterMakeTargetBuild_AiderFatal(r) ==
    IF r.err = "aider" THEN "die"
    ELSE IF r.err # "nil" \/ ~r.success THEN "nextModel" ELSE "nextTarget"

\* (variant: a git add/status/commit error ends the process, as the inline
\* loop of bld.go did)
afterMakeTargetBuild_GitFatal(r) ==
    IF r.err \in {"add", "status", "commit"} THEN "die"
    ELSE IF r.err # "nil" \/ ~r.success THEN "nextModel" ELSE "nextTarget"

\* (variant: a git stash error ends the process)
afterMakeTargetBuild_StashFatal(r) ==
    IF r.err = "stash" THEN "die"
    ELSE IF r.err # "nil" \/ ~r.success THEN "nextModel" ELSE "nextTarget"

\* (variant: after the maximum-attempts error the target loop goes on)
afterMakeTargetBuild_SkipExhausted(r) ==
    IF r.err = "maxAttempts" THEN "nextTarget"
    ELSE IF r.err # "nil" \/ ~r.success THEN "nextModel" ELSE "nextTarget"

\* (variant: the maximum-attempts error ends the process)
afterMakeTargetBuild_ExhaustedFatal(r) ==
    IF r.err = "maxAttempts" THEN "die"
    ELSE IF r.err # "nil" \/ ~r.success THEN "nextModel" ELSE "nextTarget"

\* main's handling of makeTargetBuild's result: on an error or a false result
\* it logs and breaks out of the target loop ("nextModel"), otherwise the
\* target loop goes on ("nextTarget").
afterMakeTargetBuild(r) ==
    IF r.err # "nil" \/ ~r.success THEN "nextModel" ELSE "nextTarget"

\* ------------------------------------------------------------------------
\* Control flow of makeTargetBuild: where each command's exit status leads.
\* A step is [to |-> the next statement, res |-> the value returned, if any].
\* ------------------------------------------------------------------------
Goto(p) == [to |-> p, res |-> NoResult]

Return(r) == [to |-> "returned", res |-> r]

\* How a 'bazel query' can end: the target resolves ("ok"), the target is
\* not found ("notFound"), or the command itself breaks ("infra": bazel
\* missing, server crash, unreadable workspace)
QueryExits == {"ok", "notFound", "infra"}

\* How 'bazel query <target>' can end in tree t, p being the target's
\* package: a BUILD.bazel that holds only the placeholder's comment
\* declares no target, so the query cannot succeed.
bazelQuery(t, p) ==
    IF t.build[p] = "placeholder" THEN QueryExits \ {"ok"} ELSE QueryExits

\* queryErr of 'queryOut, queryErr := queryCmd.CombinedOutput()': non-nil
\* for every exit but a successful one
queryErr(exit) == exit # "ok"

\* (variant: the output of git stash is inspected, "No local changes to
\* save" is an error)
gitStashAll_NothingIsError(exitErr, nothing) == exitErr \/ nothing

\* gitStashAll: the error is the exit status of 'git stash push -u' alone;
\* the output (which says so when there was nothing to stash) is only logged
gitStashAll(exitErr, nothing) == exitErr

\* (variant: the error of ensureBuildBazelExists is not tested)
afterEnsureBuild_Ignored(failed) == Goto("preQuery")

afterEnsureBuild(failed) ==
    IF failed THEN Return(Err("ensureBuild")) ELSE Goto("preQuery")

\* (variant: a failed pre-check query is rolled back like a failed attempt)
afterPreQuery_Rollback(failed) ==
    IF ~failed THEN Goto("preBuild") ELSE Goto("stash")

afterPreQuery(failed) ==
    IF ~failed THEN Goto("preBuild") ELSE Goto("agent")

\* (variant: after a failed pre-check build the loop is entered at its
\* query, without an aider command)
afterPreBuild_SkipAgent(failed) ==
    IF ~failed THEN Return(Ok) ELSE Goto("query")

\* (variant: a successful pre-check build does not return)
afterPreBuild_NoShortCircuit(failed) == Goto("agent")

afterPreBuild(failed) ==
    IF ~failed THEN Return(Ok) ELSE Goto("agent")

\* (variant: the error of the aider command is not tested)
afterAider_Ignored(failed) == Goto("query")

afterAider(failed) ==
    IF failed THEN Return(Err("aider")) ELSE Goto("query")

\* (variant: a failed query ends the loop at once, without a stash)
afterQuery_GiveUp(failed) ==
    IF failed THEN Return(Err("maxAttempts")) ELSE Goto("build")

\* (variant: the build is run whatever the query said)
afterQuery_BuildAnyway(failed) == Goto("build")

afterQuery(failed) ==
    IF failed THEN Goto("stash") ELSE Goto("build")

\* (variant: the changes are staged whatever the build said)
afterBuild_StageAnyway(failed) == Goto("add")

\* (variant: a validated attempt returns success without staging or
\* committing)
afterBuild_NoCommit(failed) ==
    IF failed THEN Goto("stash") ELSE Return(Ok)

afterBuild(failed) ==
    IF failed THEN Goto("stash") ELSE Goto("add")

\* (variant: the loop gives up after the first rolled-back attempt)
afterStash_GiveUpEarly(failed, a) ==
    IF failed THEN Return(Err("stash")) ELSE Return(Err("maxAttempts"))

\* (variant: the loop bound is off by one)
afterStash_OneMore(failed, a) ==
    IF failed THEN Return(Err("stash"))
    ELSE IF a + 1 <= maxAttempts + 1 THEN Goto("agent")
    ELSE Return(Err("maxAttempts"))

\* gitStashAll returned: its error is returned; otherwise 'continue', which
\* ends the loop (and returns the maximum-attempts error) after attempt
\* maxAttempts
afterStash(failed, a) ==
    IF failed THEN Return(Err("stash"))
    ELSE IF a + 1 <= maxAttempts THEN Goto("agent")
    ELSE Return(Err("maxAttempts"))

afterAdd(failed) ==
    IF failed THEN Return(Err("add")) ELSE Goto("status")

\* (variant: the status output is not looked at)
afterStatus_AlwaysCommit(failed, empty) ==
    IF failed THEN Return(Err("status")) ELSE Goto("commit")

afterStatus(failed, empty) ==
    IF failed THEN Return(Err("status"))
    ELSE IF empty THEN Return(Ok)
    ELSE Goto("commit")

\* (variant: the test of the commit's error is inverted)
afterCommit_Inverted(failed) ==
    IF failed THEN Return(Ok) ELSE Return(Err("commit"))

\* (variant: after a successful commit the attempt is rolled back and
\* retried like a failed validation)
afterCommit_StashAndRetry(failed) ==
    IF failed THEN Return(Err("commit")) ELSE Goto("stash")

\* (variant: the error of git commit is not tested)
afterCommit_ErrorIgnored(failed) == Return(Ok)

afterCommit(failed) ==
    IF failed THEN Return(Err("commit")) ELSE Return(Ok)

\* ------------------------------------------------------------------------
\* The outcome lines of the log.  A line is named by the outcome it records.
\* ------------------------------------------------------------------------

\* makeTargetBuild's own outcome line: "bazel query and build succeeded ...;
\* skipping aider" or "bazel build succeeded for model ... target ...",
\* written right before 'return true, nil'; an error return writes none
returnLine(r) == IF r = Ok THEN <<"Success">> ELSE <<>>

\* main's outcome line: "makeTargetBuild failed for model ... target ...:
\* <error>; moving to next model/worktree" on an error (the error text tells
\* the maximum-attempts error from the others), "makeTargetBuild did not
\* succeed ..." on a false result without error, none on success
mainLine(r) ==
    IF r.err # "nil"
      THEN <<IF r.err = "maxAttempts" THEN "Exhausted" ELSE "Fatal">>
    ELSE IF ~r.success THEN <<"NotSucceeded">>
    ELSE <<>>

\* ------------------------------------------------------------------------
\* Initial state: the process starts; any of the branches and worktree paths
\* may exist from an earlier run
\* ------------------------------------------------------------------------
Init ==
    /\ pc = "getwd"
    /\ mi = 1
    /\ ti = 1
    /\ attempt = 0
    /\ n = NoCalls
    /\ pre = "none"
    /\ result = NoResult
    /\ outcome = NoOutcome
    /\ issued = NoneIssued
    /\ commits = <<>>
    /\ branches \in SUBSET Models
    /\ worktrees \in SUBSET Models
    /\ tree = [edits |-> FALSE, build |-> [p \in Packages |-> "absent"]]
    /\ exitCode = -1
    /\ last = Did("start", FALSE)
    /\ log = NoLog
    /\ call = callArgs(1, 1)
    /\ trail = <<>>
    /\ ensured = NoneEnsured
    /\ h = <<>>

\* ------------------------------------------------------------------------
\* Steps shared by the actions
\* ------------------------------------------------------------------------

\* log.Fatalf / os.Exit(1)
Die ==
    /\ pc' = "exited"
    /\ exitCode' = 1

\* one more external command for the current pair, counted when its kind is
\* (an attempt begins with its aider command)
IssueNoted(kind, failed, note) ==
    /\ n' = IF kind \in DOMAIN n THEN [n EXCEPT ![kind] = @ + 1] ELSE n
    /\ issued' = [issued EXCEPT ![ti] = TRUE]
    /\ last' = Noted(kind, failed, note)
    /\ trail' = Append(IF kind = "agent" THEN <<>> ELSE trail,
                       Ran(kind, failed, call.worktreePath))

Issue(kind, failed) == IssueNoted(kind, failed, "none")

\* move to the statement the step names; a return records the result and
\* writes makeTargetBuild's outcome line; msgs are the messages of the
\* "Committed changes" lines the step wrote
TakeLogging(step, msgs) ==
    /\ pc' = step.to
    /\ result' = step.res
    /\ outcome' = IF step.to = "returned"
                    THEN [outcome EXCEPT ![ti] = step.res]
                    ELSE outcome
    /\ log' = [outcomes |-> IF step.to = "returned"
                               THEN [log.outcomes EXCEPT
                                       ![ti] = @ \o returnLine(step.res)]
                               ELSE log.outcomes,
               commits |-> log.commits \o msgs]

Take(step) == TakeLogging(step, <<>>)

\* a statement of main before the target loop: die or go on
MainStep(disp) ==
    IF disp = "die"
      THEN Die
      ELSE pc' = disp /\ UNCHANGED exitCode

\* the model loop of main advances to the next model's session, or main
\* returns (exit code 0)
NextModel ==
    IF mi < NumModels
      THEN /\ mi' = mi + 1
           /\ pc' = "ensureBranch"
           /\ outcome' = NoOutcome
           /\ issued' = NoneIssued
           /\ commits' = <<>>
           /\ UNCHANGED exitCode
      ELSE /\ pc' = "exited"
           /\ exitCode' = 0
           /\ UNCHANGED <<mi, outcome, issued, commits>>

\* ------------------------------------------------------------------------
\* main: start-up
\* ------------------------------------------------------------------------
GetWd ==
    /\ pc = "getwd"
    /\ \E failed \in BOOLEAN :
         /\ MainStep(afterGetwd(failed))
         /\ last' = Did("getwd", failed)
    /\ UNCHANGED <<mi, ti, attempt, n, pre, result, outcome, issued, commits,
                   branches, worktrees, tree>>
    /\ UNCHANGED <<log, h>>
    /\ UNCHANGED <<call, trail>>
    /\ UNCHANGED ensured

GetGitBranch ==
    /\ pc = "getbranch"
    /\ \E failed \in BOOLEAN :
         /\ MainStep(afterGetGitBranch(failed))
         /\ last' = Did("getbranch", failed)
    /\ UNCHANGED <<mi, ti, attempt, n, pre, result, outcome, issued, commits,
                   branches, worktrees, tree>>
    /\ UNCHANGED <<log, h>>
    /\ UNCHANGED <<call, trail>>
    /\ UNCHANGED ensured

UserHomeDir ==
    /\ pc = "homedir"
    /\ \E failed \in BOOLEAN :
         /\ MainStep(afterUserHomeDir(failed))
         /\ last' = Did("homedir", failed)
    /\ UNCHANGED <<mi, ti, attempt, n, pre, result, outcome, issued, commits,
                   branches, worktrees, tree>>
    /\ UNCHANGED <<log, h>>
    /\ UNCHANGED <<call, trail>>
    /\ UNCHANGED ensured

\* ------------------------------------------------------------------------
\* main: the session of the current model
\* ------------------------------------------------------------------------

\* createGitBranchIfNotExists and main's test of its error
EnsureBranch ==
    /\ pc = "ensureBranch"
    /\ \E checkFailed, createFailed \in BOOLEAN :
         LET r == createGitBranchIfNotExists(branches, mi, checkFailed,
                                             createFailed)
         IN  /\ branches' = r.set
             /\ MainStep(afterEnsureBranch(r.err))
             /\ last' = Did("ensureBranch", r.err)
    /\ UNCHANGED <<mi, ti, attempt, n, pre, result, outcome, issued, commits,
                   worktrees, tree>>
    /\ log' = NoLog
    /\ UNCHANGED h
    /\ UNCHANGED <<call, trail>>
    /\ ensured' = [ensured EXCEPT ![mi].branch = @ + 1]

\* createGitWorktreeIfNotExists and main's test of its error.  A path that
\* already exists holds whatever an earlier run left there; a new worktree
\* is a checkout of the branch.
EnsureWorktree ==
    /\ pc = "ensureWorktree"
    /\ \E checkFailed, addFailed \in BOOLEAN :
         LET r == createGitWorktreeIfNotExists(worktrees, mi, checkFailed,
                                               addFailed)
         IN  /\ worktrees' = r.set
             /\ MainStep(afterEnsureWorktree(r.err))
             /\ last' = Did("ensureWorktree", r.err)
             /\ IF r.err THEN tree' = tree
                ELSE IF r.created THEN tree' \in CleanTrees
                ELSE tree' \in Trees
    /\ ti' = 1
    /\ UNCHANGED <<mi, attempt, n, pre, result, outcome, issued, commits,
                   branches>>
    /\ UNCHANGED <<log, h>>
    /\ UNCHANGED <<call, trail>>
    /\ ensured' = [ensured EXCEPT ![mi].worktree = @ + 1]

\* ------------------------------------------------------------------------
\* makeTargetBuild
\* ------------------------------------------------------------------------

\* the call of makeTargetBuild and its ensureBuildBazelExists: an existing
\* BUILD.bazel is left alone, a missing one is written as a placeholder
EnsureBuildBazelExists ==
    /\ pc = "callTarget"
    /\ \E failed \in BOOLEAN :
         /\ Take(afterEnsureBuild(failed))
         /\ tree' = IF ~failed /\ tree.build[Pkg(ti)] = "absent"
                      THEN [tree EXCEPT !.build[Pkg(ti)] = "placeholder"]
                      ELSE tree
         /\ last' = Did("ensureBuild", failed)
    /\ n' = NoCalls
    /\ pre' = "none"
    /\ attempt' = 0
    /\ call' = callArgs(mi, ti)
    /\ trail' = <<>>
    /\ UNCHANGED ensured
    /\ UNCHANGED <<mi, ti, issued, commits, branches, worktrees, exitCode>>
    /\ UNCHANGED h

\* pre-check: 'bazel query'
PrecheckQuery ==
    /\ pc = "preQuery"
    /\ \E exit \in bazelQuery(tree, Pkg(ti)) :
         LET failed == queryErr(exit)
         IN  /\ Take(afterPreQuery(failed))
             /\ n' = [n EXCEPT !.precheck = @ + 1]
             /\ issued' = [issued EXCEPT ![ti] = TRUE]
             /\ last' = Noted("query", exit # "ok",
                              IF exit = "ok" THEN "none" ELSE exit)
             /\ trail' = Append(trail, Ran("query", exit # "ok",
                                           call.worktreePath))
             /\ pre' = IF failed THEN "queryFailed" ELSE pre
             /\ attempt' = IF afterPreQuery(failed).to = "agent"
                             THEN 1 ELSE attempt
    /\ UNCHANGED <<mi, ti, commits, branches, worktrees, tree, exitCode>>
    /\ UNCHANGED h
    /\ UNCHANGED <<call, ensured>>

\* pre-check: 'bazel build'
PrecheckBuild ==
    /\ pc = "preBuild"
    /\ \E failed \in BOOLEAN :
         /\ Take(afterPreBuild(failed))
         /\ Issue("build", failed)
         /\ pre' = IF failed THEN "buildFailed" ELSE "passed"
         /\ attempt' = IF afterPreBuild(failed).to = "agent" THEN 1 ELSE attempt
    /\ UNCHANGED <<mi, ti, commits, branches, worktrees, tree, exitCode>>
    /\ UNCHANGED h
    /\ UNCHANGED <<call, ensured>>

\* the aider command of the current attempt
InvokeAider ==
    /\ pc = "agent"
    /\ \E failed \in BOOLEAN :
         /\ Take(afterAider(failed))
         /\ Issue("agent", failed)
    /\ tree' \in AiderEdits(tree, Pkg(ti))
    /\ UNCHANGED <<mi, ti, attempt, pre, commits, branches, worktrees,
                   exitCode>>
    /\ UNCHANGED h
    /\ UNCHANGED <<call, ensured>>

\* 'bazel query' after aider
ValidateQuery ==
    /\ pc = "query"
    /\ \E exit \in bazelQuery(tree, Pkg(ti)) :
         /\ Take(afterQuery(queryErr(exit)))
         /\ IssueNoted("query", exit # "ok",
                       IF exit = "ok" THEN "none" ELSE exit)
    /\ UNCHANGED <<mi, ti, attempt, pre, commits, branches, worktrees, tree,
                   exitCode>>
    /\ UNCHANGED h
    /\ UNCHANGED <<call, ensured>>

\* 'bazel build' after a successful query
ValidateBuild ==
    /\ pc = "build"
    /\ \E failed \in BOOLEAN :
         /\ Take(afterBuild(failed))
         /\ n' = IF failed THEN n ELSE [n EXCEPT !.passed = @ + 1]
         /\ last' = Did("build", failed)
         /\ trail' = Append(trail, Ran("build", failed, call.worktreePath))
    /\ issued' = [issued EXCEPT ![ti] = TRUE]
    /\ UNCHANGED <<mi, ti, attempt, pre, commits, branches, worktrees, tree,
                   exitCode>>
    /\ UNCHANGED h
    /\ UNCHANGED <<call, ensured>>

\* gitStashAll, and the loop's continue.  'git stash push -u' exits with
\* status 0 and says "No local changes to save" when the tree is clean.
StashAll ==
    /\ pc = "stash"
    /\ \E exitErr \in BOOLEAN :
         LET nothing == ~exitErr /\ StatusEmpty(tree)
             failed == gitStashAll(exitErr, nothing)
         IN  /\ Take(afterStash(failed, attempt))
             /\ n' = [n EXCEPT !.stash = @ + 1,
                               !.pushed = @ + stashPush(tree, exitErr)]
             /\ issued' = [issued EXCEPT ![ti] = TRUE]
             /\ last' = Noted("stash", exitErr,
                              IF nothing THEN "nothing" ELSE "none")
             /\ trail' = Append(trail, Ran("stash", exitErr,
                                           call.worktreePath))
             /\ tree' = IF exitErr THEN tree ELSE Stashed(tree)
             /\ attempt' = IF afterStash(failed, attempt).to = "agent"
                             THEN attempt + 1 ELSE attempt
    /\ UNCHANGED <<mi, ti, pre, commits, branches, worktrees, exitCode>>
    /\ UNCHANGED h
    /\ UNCHANGED <<call, ensured>>

\* 'git add -A'
StageAll ==
    /\ pc = "add"
    /\ \E failed \in BOOLEAN :
         /\ Take(afterAdd(failed))
         /\ Issue("stage", failed)
    /\ UNCHANGED <<mi, ti, attempt, pre, commits, branches, worktrees, tree,
                   exitCode>>
    /\ UNCHANGED h
    /\ UNCHANGED <<call, ensured>>

\* 'git status --porcelain'
StatusPorcelain ==
    /\ pc = "status"
    /\ \E failed \in BOOLEAN :
         /\ Take(afterStatus(failed, StatusEmpty(tree)))
         /\ Issue("status", failed)
    /\ UNCHANGED <<mi, ti, attempt, pre, commits, branches, worktrees, tree,
                   exitCode>>
    /\ UNCHANGED h
    /\ UNCHANGED <<call, ensured>>

\* 'git commit -m "aider: model <model> target <target>"'
Commit ==
    /\ pc = "commit"
    /\ \E failed \in BOOLEAN :
         /\ TakeLogging(afterCommit(failed),
                        IF failed THEN <<>>
                        ELSE <<commitMsg(llmModel(models[mi]),
                                         targetLabels[ti])>>)
         /\ Issue("commit", failed)
         /\ commits' = IF failed THEN commits
                       ELSE Append(commits, <<mi, ti>>)
         /\ tree' = IF failed THEN tree ELSE Committed(tree)
    /\ UNCHANGED <<mi, ti, attempt, pre, branches, worktrees, exitCode>>
    /\ UNCHANGED h
    /\ UNCHANGED <<call, ensured>>

\* ------------------------------------------------------------------------
\* main: the target loop's handling of makeTargetBuild's result
\* ------------------------------------------------------------------------
HandleResult ==
    /\ pc = "returned"
    /\ CASE afterMakeTargetBuild(result) = "nextTarget" ->
              IF ti < NumTargets
                THEN /\ ti' = ti + 1
                     /\ pc' = "callTarget"
                     /\ UNCHANGED <<mi, outcome, issued, commits, exitCode>>
                ELSE NextModel /\ UNCHANGED ti
         [] afterMakeTargetBuild(result) = "nextModel" ->
              NextModel /\ UNCHANGED ti
         [] afterMakeTargetBuild(result) = "die" ->
              Die /\ UNCHANGED <<mi, ti, outcome, issued, commits>>
    /\ log' = [log EXCEPT !.outcomes[ti] = @ \o mainLine(result)]
    /\ UNCHANGED <<attempt, n, pre, result, branches, worktrees, tree, last>>
    /\ UNCHANGED h
    /\ UNCHANGED <<call, trail>>
    /\ UNCHANGED ensured

Next ==
    \/ GetWd
    \/ GetGitBranch
    \/ UserHomeDir
    \/ EnsureBranch
    \/ EnsureWorktree
    \/ EnsureBuildBazelExists
    \/ PrecheckQuery
    \/ PrecheckBuild
    \/ InvokeAider
    \/ ValidateQuery
    \/ ValidateBuild
    \/ StashAll
    \/ StageAll
    \/ StatusPorcelain
    \/ Commit
    \/ HandleResult

Spec == Init /\ [][Next]_vars

\* The runs in which the tree of every session has no uncommitted change
\* when the session's first target starts: the worktree is new, or the
\* existing one was left with nothing to commit.
EnsureWorktreeClean == EnsureWorktree /\ StatusEmpty(tree')

NextCleanStart ==
    \/ GetWd
    \/ GetGitBranch
    \/ UserHomeDir
    \/ EnsureBranch
    \/ EnsureWorktreeClean
    \/ EnsureBuildBazelExists
    \/ PrecheckQuery
    \/ PrecheckBuild
    \/ InvokeAider
    \/ ValidateQuery
    \/ ValidateBuild
    \/ StashAll
    \/ StageAll
    \/ StatusPorcelain
    \/ Commit
    \/ HandleResult

SpecCleanStart == Init /\ [][NextCleanStart]_vars

\* ------------------------------------------------------------------------
\* The functions of the session set-up applied on their own, outside a run
\* of main
\* ------------------------------------------------------------------------
mainVars == <<pc, mi, ti, attempt, n, pre, result, outcome, issued, commits,
              branches, worktrees, tree, exitCode, last, log, call, trail,
              ensured>>

\* main is not running
Parked ==
    /\ pc = "parked"
    /\ mi = 1
    /\ ti = 1
    /\ attempt = 0
    /\ n = NoCalls
    /\ pre = "none"
    /\ result = NoResult
    /\ outcome = NoOutcome
    /\ issued = NoneIssued
    /\ commits = <<>>
    /\ branches = {}
    /\ worktrees = {}
    /\ tree = [edits |-> FALSE, build |-> [p \in Packages |-> "absent"]]
    /\ exitCode = -1
    /\ last = Did("start", FALSE)
    /\ log = NoLog
    /\ call = callArgs(1, 1)
    /\ trail = <<>>
    /\ ensured = NoneEnsured

\* Number of branch names (worktree paths) a repository may hold
MaxNames == 3

\* Number of successive calls of an ensure function with the same arguments
MaxCalls == 2

Names == 1..MaxNames

\* any repository (set of existing names), any argument, no call made yet
InitEnsure ==
    /\ Parked
    /\ h \in [fn : {"branch", "worktree"}, set : SUBSET Names, arg : Names,
               calls : {<<>>}]

\* one call: what it was given and what it did
Called(checkFailed, before, r) ==
    [checkFailed |-> checkFailed, before |-> before, err |-> r.err,
     tried |-> r.tried, after |-> r.set]

\* createGitBranchIfNotExists(dir, branchName), once more
CallEnsureBranch ==
    /\ h.fn = "branch"
    /\ Len(h.calls) < MaxCalls
    /\ \E checkFailed, createFailed \in BOOLEAN :
         LET r == createGitBranchIfNotExists(h.set, h.arg, checkFailed,
                                             createFailed)
         IN  h' = [h EXCEPT !.set = r.set,
                            !.calls = Append(@, Called(checkFailed, h.set, r))]
    /\ UNCHANGED mainVars

\* createGitWorktreeIfNotExists(repoDir, worktreePath, branchName), once more
CallEnsureWorktree ==
    /\ h.fn = "worktree"
    /\ Len(h.calls) < MaxCalls
    /\ \E checkFailed, addFailed \in BOOLEAN :
         LET r == createGitWorktreeIfNotExists(h.set, h.arg, checkFailed,
                                               addFailed)
         IN  h' = [h EXCEPT !.set = r.set,
                            !.calls = Append(@, Called(checkFailed, h.set, r))]
    /\ UNCHANGED mainVars

NextEnsure ==
    \/ CallEnsureBranch
    \/ CallEnsureWorktree

SpecEnsure == InitEnsure /\ [][NextEnsure]_vars

\* ------------------------------------------------------------------------
\* The naming of sessions applied on its own: the branch names and worktree
\* paths main derives for two entries of the models list, for any current
\* branch and home directory
\* ------------------------------------------------------------------------

\* Length of the longest current-branch name tried
MaxBaseLen == 3

BaseChars == {"m", "-", "/"}

\* a branch name git accepts: it neither begins with "-" or "/" nor ends
\* with "/", and holds no "//"
ValidBranch(b) ==
    /\ b[1] \notin {"-", "/"}
    /\ b[Len(b)] # "/"
    /\ \A i \in 1..(Len(b) - 1) : ~(b[i] = "/" /\ b[i + 1] = "/")

\* what getGitBranch may return
Bases ==
    {b \in UNION {[1..k -> BaseChars] : k \in 1..MaxBaseLen} : ValidBranch(b)}

\* what os.UserHomeDir may return
Homes == {<<"/">>, <<"/", "h">>}

NoNames == [branchA |-> <<>>, branchB |-> <<>>, pathA |-> <<>>, pathB |-> <<>>]

InitNames ==
    /\ Parked
    /\ h \in [base : Bases, home : Homes, a : DOMAIN models, b : DOMAIN models,
               derived : {FALSE}, names : {NoNames}]

\* the first three statements of the model loop's body, for models a and b
DeriveNames ==
    /\ ~h.derived
    /\ h' = [h EXCEPT
               !.derived = TRUE,
               !.names =
                  [branchA |-> modelBranch(h.base, models[h.a]),
                   branchB |-> modelBranch(h.base, models[h.b]),
                   pathA |-> worktreePath(h.home, h.base, models[h.a]),
                   pathB |-> worktreePath(h.home, h.base, models[h.b])]]
    /\ UNCHANGED mainVars

NextNames == DeriveNames

SpecNames == InitNames /\ [][NextNames]_vars

\* ------------------------------------------------------------------------
\* migrate.go: createModuleFileIfNecessary, called MaxCalls times on the
\* same directory.  h holds the state of MODULE.bazel and the calls made.
\* ------------------------------------------------------------------------

\* MODULE.bazel in the directory: missing, present and unknown to git,
\* added to the index, or committed
ModuleStates == {"absent", "untracked", "staged", "committed"}

\* what a call did: its error, the file afterwards, whether it created the
\* file, ran 'bazel mod explain', issued 'git commit'
Migrated(err, module, created, explained, commit) ==
    [err |-> err, module |-> module, created |-> created,
     explained |-> explained, issued |-> commit]

\* commitModuleFiles: 'git add', then 'git commit'
commitModuleFiles(m, addErr, commitErr) ==
    IF addErr THEN [err |-> TRUE, module |-> m, issued |-> FALSE]
    ELSE IF commitErr THEN [err |-> TRUE, module |-> "staged", issued |-> TRUE]
    ELSE [err |-> FALSE, module |-> "committed", issued |-> TRUE]

\* (variant: the module files are committed whether or not MODULE.bazel
\* existed)
createModuleFileIfNecessary_AlwaysCommit(m, statErr, createErr, explainErr, addErr, commitErr) ==
    IF statErr THEN Migrated(TRUE, m, FALSE, FALSE, FALSE)
    ELSE IF m = "absent" /\ createErr
      THEN Migrated(TRUE, m, FALSE, FALSE, FALSE)
    ELSE IF explainErr
      THEN Migrated(TRUE, IF m = "absent" THEN "untracked" ELSE m,
                    m = "absent", TRUE, FALSE)
    ELSE LET c == commitModuleFiles(IF m = "absent" THEN "untracked" ELSE m,
                                    addErr, commitErr)
         IN  Migrated(c.err, c.module, m = "absent", TRUE, c.issued)

\* createModuleFileIfNecessary
createModuleFileIfNecessary(m, statErr, createErr, explainErr, addErr, commitErr) ==
    IF statErr THEN Migrated(TRUE, m, FALSE, FALSE, FALSE)
    ELSE IF m # "absent" THEN Migrated(explainErr, m, FALSE, TRUE, FALSE)
    ELSE IF createErr THEN Migrated(TRUE, m, FALSE, FALSE, FALSE)
    ELSE IF explainErr THEN Migrated(TRUE, "untracked", TRUE, TRUE, FALSE)
    ELSE LET c == commitModuleFiles("untracked", addErr, commitErr)
         IN  Migrated(c.err, c.module, TRUE, TRUE, c.issued)

InitModule ==
    /\ Parked
    /\ h \in [module : ModuleStates, calls : {<<>>}]

\* createModuleFileIfNecessary(dir), once more
CallCreateModule ==
    /\ Len(h.calls) < MaxCalls
    /\ \E statErr, createErr, explainErr, addErr, commitErr \in BOOLEAN :
         LET r == createModuleFileIfNecessary(h.module, statErr, createErr,
                                              explainErr, addErr, commitErr)
         IN  h' = [module |-> r.module,
                   calls |-> Append(h.calls,
                                    [before |-> h.module,
                                     statErr |-> statErr,
                                     explainErr |-> explainErr,
                                     did |-> r])]
    /\ UNCHANGED mainVars

NextModule == CallCreateModule

SpecModule == InitModule /\ [][NextModule]_vars

\* ------------------------------------------------------------------------
\* migrate.go: addRulesRustDependencyIfNecessary, called MaxCalls times on
\* the same directory.  h holds whether MODULE.bazel declares rules_rust by
\* itself, the rules_rust blocks appended to it, the blocks that are
\* committed, and the calls made.
\* ------------------------------------------------------------------------

\* How 'bazel mod explain' can end: it fails, or its output contains
\* "rules_rust" ("listed"), which takes a MODULE.bazel that declares it,
\* or its output does not
bazelModExplain(present) ==
    IF present THEN {"err", "listed", "notListed"} ELSE {"err", "notListed"}

\* rulesRustExists: (bytes.Contains(output, "rules_rust"), err)
rulesRustExists(exit) ==
    [exists |-> exit = "listed", err |-> exit = "err"]

\* addRulesRustDependency: open MODULE.bazel for appending and write the
\* block
addRulesRustDependency(blocks, openErr, writeErr) ==
    IF openErr \/ writeErr
      THEN [err |-> TRUE, blocks |-> blocks]
      ELSE [err |-> FALSE, blocks |-> blocks + 1]

\* what a call did: its error, the blocks in the file and in the last
\* commit afterwards, whether it issued 'git commit'
Added(err, blocks, committed, commit) ==
    [err |-> err, blocks |-> blocks, committed |-> committed,
     issued |-> commit]

\* addRulesRustDependencyIfNecessary
addRulesRustDependencyIfNecessary(blocks, committed, first, openErr, writeErr, second, addErr, commitErr) ==
    IF rulesRustExists(first).err THEN Added(TRUE, blocks, committed, FALSE)
    ELSE IF rulesRustExists(first).exists
      THEN Added(FALSE, blocks, committed, FALSE)
    ELSE LET a == addRulesRustDependency(blocks, openErr, writeErr)
         IN  IF a.err THEN Added(TRUE, a.blocks, committed, FALSE)
             ELSE IF rulesRustExists(second).err
               THEN Added(TRUE, a.blocks, committed, FALSE)
             ELSE IF ~rulesRustExists(second).exists
               THEN Added(TRUE, a.blocks, committed, FALSE)
             ELSE LET c == commitModuleFiles("untracked", addErr, commitErr)
                  IN  Added(c.err, a.blocks,
                            IF c.err THEN committed ELSE a.blocks, c.issued)

InitRulesRust ==
    /\ Parked
    /\ h \in [declared : BOOLEAN, blocks : {0}, committed : {0},
               calls : {<<>>}]

\* addRulesRustDependencyIfNecessary(dir), once more
CallAddRulesRust ==
    /\ Len(h.calls) < MaxCalls
    /\ \E first \in bazelModExplain(h.declared \/ h.blocks > 0),
          second \in bazelModExplain(TRUE),
          openErr, writeErr, addErr, commitErr \in BOOLEAN :
         LET r == addRulesRustDependencyIfNecessary(
                      h.blocks, h.committed, first, openErr, writeErr,
                      second, addErr, commitErr)
         IN  h' = [h EXCEPT
                     !.blocks = r.blocks,
                     !.committed = r.committed,
                     !.calls = Append(@, [blocks |-> h.blocks,
                                          first |-> first,
                                          second |-> second,
                                          did |-> r])]
    /\ UNCHANGED mainVars

NextRulesRust == CallAddRulesRust

SpecRulesRust == InitRulesRust /\ [][NextRulesRust]_vars

\* ------------------------------------------------------------------------
\* migrate.go: getCrateWithFewestDependencies.  A crate is named by its
\* place in the list getRustCrateNames returned, the empty name is 0; h
\* holds what 'cargo tree' gives for each crate and the value returned.
\* ------------------------------------------------------------------------

\* Length of the longest crate list tried
MaxCrates == 3

\* The largest number of dependency lines 'cargo tree' prints for a crate
MaxDeps == 2

\* getRustCrateDependencies of one crate: an error, or the dependencies
Lookups == {[err |-> TRUE, deps |-> 0]} \cup [err : {FALSE}, deps : 0..MaxDeps]

CrateLists == UNION {[1..k -> Lookups] : k \in 0..MaxCrates}

\* (string, error), and the number of crates looked up
Fewest(name, err, looked) == [name |-> name, err |-> err, looked |-> looked]

NotCalled == Fewest(0, FALSE, -1)

RECURSIVE crateLoop_LastMinimal(_, _, _, _)
\* (variant: the comparison is <=, so a later crate with the same count
\* replaces an earlier one)
crateLoop_LastMinimal(crates, i, minDependencies, crateWithFewestDependencies) ==
    IF i > Len(crates)
      THEN Fewest(crateWithFewestDependencies, FALSE, Len(crates))
    ELSE IF crates[i].err THEN Fewest(0, TRUE, i)
    ELSE IF minDependencies = -1 \/ crates[i].deps <= minDependencies
      THEN crateLoop_LastMinimal(crates, i + 1, crates[i].deps, i)
    ELSE crateLoop_LastMinimal(crates, i + 1, minDependencies,
                               crateWithFewestDependencies)

RECURSIVE crateLoop(_, _, _, _)
\* the for loop over crateNames, from the i-th crate on
crateLoop(crates, i, minDependencies, crateWithFewestDependencies) ==
    IF i > Len(crates)
      THEN Fewest(crateWithFewestDependencies, FALSE, Len(crates))
    ELSE IF crates[i].err THEN Fewest(0, TRUE, i)
    ELSE IF minDependencies = -1 \/ crates[i].deps < minDependencies
      THEN crateLoop(crates, i + 1, crates[i].deps, i)
    ELSE crateLoop(crates, i + 1, minDependencies,
                   crateWithFewestDependencies)

\* getCrateWithFewestDependencies (namesErr: getRustCrateNames failed)
getCrateWithFewestDependencies(namesErr, crates) ==
    IF namesErr THEN Fewest(0, TRUE, 0)
    ELSE IF Len(crates) = 0 THEN Fewest(0, FALSE, 0)
    ELSE crateLoop(crates, 1, -1, 0)

InitCrates ==
    /\ Parked
    /\ h \in [crates : CrateLists, namesErr : BOOLEAN, ret : {NotCalled}]

CallFewest ==
    /\ h.ret = NotCalled
    /\ h' = [h EXCEPT !.ret = getCrateWithFewestDependencies(h.namesErr,
                                                             h.crates)]
    /\ UNCHANGED mainVars

NextCrates == CallFewest

SpecCrates == InitCrates /\ [][NextCrates]_vars

\* the statements of makeTargetBuild at which a command is about to be run
LoopPcs == {"preQuery", "preBuild", "agent", "query", "build", "stash", "add",
            "status", "commit"}

\* ------------------------------------------------------------------------
\* The control flow of a whole run, with the commands counted over the run:
\* h holds the statement the run is at, the loop variables of main and of
\* makeTargetBuild, the aider commands of the current call and of the run,
\* and the makeTargetBuild calls of the run.
\* ------------------------------------------------------------------------
InitRun ==
    /\ Parked
    /\ h = [at |-> "getwd", model |-> 1, target |-> 1, attempt |-> 0,
            res |-> NoResult, code |-> -1, agents |-> 0, total |-> 0,
            calls |-> 0]

\* main's test of the error of a start-up or session call
mainStep(at, failed) ==
    CASE at = "getwd" -> afterGetwd(failed)
      [] at = "getbranch" -> afterGetGitBranch(failed)
      [] at = "homedir" -> afterUserHomeDir(failed)
      [] at = "ensureBranch" -> afterEnsureBranch(failed)
      [] at = "ensureWorktree" -> afterEnsureWorktree(failed)

\* makeTargetBuild's test of the result of the command at a statement of
\* its loop (empty: 'git status' printed nothing, or there was nothing to
\* stash)
loopStep(at, failed, empty, a) ==
    CASE at = "preQuery" -> afterPreQuery(failed)
      [] at = "preBuild" -> afterPreBuild(failed)
      [] at = "agent" -> afterAider(failed)
      [] at = "query" -> afterQuery(failed)
      [] at = "build" -> afterBuild(failed)
      [] at = "stash" -> afterStash(gitStashAll(failed, empty), a)
      [] at = "add" -> afterAdd(failed)
      [] at = "status" -> afterStatus(failed, empty)
      [] at = "commit" -> afterCommit(failed)

\* a start-up or session call of main returns
RunMainCall ==
    /\ h.at \in {"getwd", "getbranch", "homedir", "ensureBranch",
                 "ensureWorktree"}
    /\ \E failed \in BOOLEAN :
         LET to == mainStep(h.at, failed)
         IN  h' = [h EXCEPT
                     !.at = IF to = "die" THEN "exited" ELSE to,
                     !.code = IF to = "die" THEN 1 ELSE @,
                     !.target = IF h.at = "ensureWorktree" THEN 1 ELSE @]
    /\ UNCHANGED mainVars

\* main calls makeTargetBuild, which ensures the BUILD.bazel file
RunCallTarget ==
    /\ h.at = "callTarget"
    /\ \E failed \in BOOLEAN :
         LET step == afterEnsureBuild(failed)
         IN  h' = [h EXCEPT !.at = step.to, !.res = step.res,
                            !.attempt = 0, !.agents = 0,
                            !.calls = @ + 1]
    /\ UNCHANGED mainVars

\* a command of makeTargetBuild returns
RunCommand ==
    /\ h.at \in LoopPcs
    /\ \E failed, empty \in BOOLEAN :
         LET step == loopStep(h.at, failed, empty, h.attempt)
             aider == IF h.at = "agent" THEN 1 ELSE 0
         IN  h' = [h EXCEPT
                     !.at = step.to,
                     !.res = step.res,
                     !.attempt = IF step.to = "agent" THEN @ + 1 ELSE @,
                     !.agents = @ + aider,
                     !.total = @ + aider]
    /\ UNCHANGED mainVars

\* makeTargetBuild returned: the next target, the next model, or the end
RunReturn ==
    /\ h.at = "returned"
    /\ LET to == afterMakeTargetBuild(h.res)
       IN  IF to = "die"
             THEN h' = [h EXCEPT !.at = "exited", !.code = 1]
           ELSE IF to = "nextTarget" /\ h.target < NumTargets
             THEN h' = [h EXCEPT !.at = "callTarget", !.target = @ + 1]
           ELSE IF h.model < NumModels
             THEN h' = [h EXCEPT !.at = "ensureBranch", !.model = @ + 1]
           ELSE h' = [h EXCEPT !.at = "exited", !.code = 0]
    /\ UNCHANGED mainVars

NextRun ==
    \/ RunMainCall
    \/ RunCallTarget
    \/ RunCommand
    \/ RunReturn

SpecRun == InitRun /\ [][NextRun]_vars

\* every external call returns, so a statement that can be executed is
\* executed eventually
FairRun == SpecRun /\ WF_vars(NextRun)

\* ------------------------------------------------------------------------
\* Types
\* ------------------------------------------------------------------------
Results == [success : BOOLEAN, err : Errs \cup {"pending"}]

OutcomeLines == {"Success", "Exhausted", "Fatal", "NotSucceeded"}

TypeOK ==
    /\ pc \in {"getwd", "getbranch", "homedir", "ensureBranch",
               "ensureWorktree", "callTarget", "preQuery", "preBuild",
               "agent", "query", "build", "stash", "add", "status", "commit",
               "returned", "exited"}
    /\ mi \in Models
    /\ ti \in Targets
    /\ attempt \in 0..maxAttempts
    /\ n \in [DOMAIN NoCalls -> Nat]
    /\ pre \in {"none", "passed", "queryFailed", "buildFailed"}
    /\ result \in Results
    /\ outcome \in [Targets -> Results]
    /\ issued \in [Targets -> BOOLEAN]
    /\ commits \in Seq({mi} \X Targets)
    /\ branches \subseteq Models
    /\ worktrees \subseteq Models
    /\ tree \in Trees
    /\ exitCode \in {-1, 0, 1}
    /\ last \in [cmd : LoopCmds \cup MainCalls \cup {"start", "ensureBuild"},
                 failed : BOOLEAN,
                 note : {"none", "nothing", "notFound", "infra"}]
    /\ log.outcomes \in [Targets -> Seq(OutcomeLines)]
    /\ call \in [worktreePath : Models, llmModel : Models, target : Targets]
    /\ trail \in Seq([cmd : LoopCmds, failed : BOOLEAN, dir : Models])
    /\ Len(trail) <= Cardinality(LoopCmds)
    /\ ensured \in [Models -> [branch : 0..1, worktree : 0..1]]
    /\ h = <<>>

\* ------------------------------------------------------------------------
\* Properties
\* ------------------------------------------------------------------------

\* the model loop has gone on from model mi: to the next model's session,
\* or, after the last model, to the end of main
GoesToNextModel ==
    IF mi < NumModels
      THEN pc' = "ensureBranch" /\ mi' = mi + 1
      ELSE pc' = "exited" /\ exitCode' = 0

PrecheckFailed == pre \in {"queryFailed", "buildFailed"}

\* C1 (as stated): whenever the pre-check fails and no attempt passes both
\* query and build, a call of makeTargetBuild invokes aider exactly 5 times.
C1_Original ==
    (pc = "returned" /\ PrecheckFailed /\ n.passed = 0) => n.agent = 5

\* C1 (amended): aider is never invoked more than 5 times by one call of
\* makeTargetBuild, and exactly 5 times when the pre-check fails, no attempt
\* passes both query and build, and neither an aider command nor a git
\* stash fails.
C1_AttemptBound ==
    /\ n.agent <= 5
    /\ (/\ pc = "returned"
        /\ PrecheckFailed
        /\ n.passed = 0
        /\ result.err \notin {"aider", "stash"}) => n.agent = 5

C1_Witness ==
    /\ pc = "returned"
    /\ PrecheckFailed
    /\ n.passed = 0
    /\ result = Err("maxAttempts")
    /\ n.agent = 5

\* C2: when the pre-check query and the pre-check build both succeed,
\* makeTargetBuild returns success with no aider, git stash, git add or git
\* commit command issued.
C2_PrecheckShortCircuit ==
    pre = "passed" =>
        /\ pc \in {"returned", "callTarget", "ensureBranch", "ensureWorktree",
                   "exited"}
        /\ result = Ok
        /\ n.agent = 0
        /\ n.stash = 0
        /\ n.stage = 0
        /\ n.commit = 0

C2_Witness ==
    /\ pc = "returned"
    /\ pre = "passed"
    /\ last = Did("build", FALSE)

\* C3: when makeTargetBuild does not return success for target ti of model
\* mi, main goes on to the next model's session (or ends after the last
\* model); models are never revisited, and a command is issued for a target
\* only while all earlier targets of the current model have returned
\* success, so none is ever issued for a target after a failed one.
C3_PerModelShortCircuit ==
    [][/\ mi' >= mi
       /\ (pc = "returned" /\ result # Ok) => GoesToNextModel
       /\ \A j \in Targets :
            (issued'[j] /\ ~issued[j]) =>
                /\ mi' = mi
                /\ j = ti
                /\ \A i \in 1..(j - 1) : outcome[i] = Ok]_vars

C3_Witness ==
    /\ pc = "ensureBranch"
    /\ mi = 2
    /\ ti < NumTargets
    /\ result = Err("maxAttempts")

\* C4: a call of makeTargetBuild that returns the maximum-attempts error has
\* issued no git commit, and a call that does not return success has added
\* no commit to the branch.
C4_NoCommitWithoutSuccess ==
    /\ result.err = "maxAttempts" => n.commit = 0
    /\ (pc = "returned" /\ result # Ok) =>
           \A k \in 1..Len(commits) : commits[k] # <<mi, ti>>

C4_Witness ==
    /\ pc = "returned"
    /\ result = Err("maxAttempts")
    /\ ti = 2
    /\ commits = <<(<<mi, 1>>)>>

\* C5: when git status succeeds and prints nothing after git add, in an
\* attempt whose query and build succeeded, no git commit is issued and
\* makeTargetBuild returns success.
C5_NoOpCommitSuppression ==
    [][(pc = "status" /\ last' = Did("status", FALSE) /\ StatusEmpty(tree)) =>
           /\ n.passed = 1
           /\ pc' = "returned"
           /\ result' = Ok
           /\ n'.commit = 0
           /\ commits' = commits]_vars

C5_Witness ==
    /\ pc = "returned"
    /\ last = Did("status", FALSE)
    /\ StatusEmpty(tree)
    /\ result = Ok
    /\ n.stage = 1
    /\ n.commit = 0

C8_StashFailureIsTargetScoped ==
    [][/\ (pc = "stash" /\ last'.failed) =>
              /\ pc' = "returned"
              /\ result' = Err("stash")
              /\ attempt' = attempt
              /\ n'.agent = n.agent
       /\ (pc = "returned" /\ result = Err("stash")) => GoesToNextModel]_vars

C8_Witness ==
    /\ pc = "ensureWorktree"
    /\ mi = 2
    /\ last = Did("ensureBranch", FALSE)
    /\ result = Err("stash")
    /\ ti < NumTargets

\* C9: when ensuring the branch or the worktree of a model fails, the
\* process exits at once with code 1: it creates no branch and no worktree
\* and issues no command in that step, and nothing happens after the exit.
C9_SessionFailureAborts ==
    [][/\ pc # "exited"
       /\ (pc \in {"ensureBranch", "ensureWorktree"} /\ last'.failed) =>
              /\ pc' = "exited"
              /\ exitCode' = 1
              /\ branches' = branches
              /\ worktrees' = worktrees
              /\ issued' = NoneIssued
              /\ outcome' = NoOutcome]_vars

C9_Witness ==
    /\ pc = "exited"
    /\ exitCode = 1
    /\ last = Did("ensureWorktree", TRUE)
    /\ mi < NumModels
    /\ outcome = NoOutcome

C11_AgentFailureNotRetried ==
    [][/\ (pc = "agent" /\ last'.failed) =>
              /\ pc' = "returned"
              /\ result' = Err("aider")
              /\ attempt' = attempt
              /\ n'.agent = attempt
              /\ n'.stash = n.stash /\ n'.stage = n.stage
              /\ n'.commit = n.commit /\ n'.passed = n.passed
       /\ (pc = "returned" /\ result = Err("aider")) =>
              /\ last = Did("agent", TRUE)
              /\ pc' \notin LoopPcs \cup {"callTarget"}
              /\ n' = n
              /\ attempt' = attempt
              /\ GoesToNextModel]_vars

C11_Witness ==
    /\ pc = "returned"
    /\ result = Err("aider")
    /\ last = Did("agent", TRUE)
    /\ attempt = 2
    /\ n.agent = 2
    /\ n.stash = 1

\* C12: the model index only ever moves to the next entry of the models
\* list, and only when a makeTargetBuild call has returned; within a model
\* the target index starts at the first target and moves only to the next
\* entry, and only after the current target returned (true, nil); whenever
\* makeTargetBuild is about to be called for a pair, that pair has no result
\* and no command yet, every earlier target of the model has succeeded and
\* no later target has been started.
C12_ProcessingOrder ==
    [][/\ mi' \in {mi, mi + 1}
       /\ mi' # mi => (pc = "returned" /\ pc' = "ensureBranch")
       /\ ti' # ti =>
              \/ pc = "ensureWorktree" /\ ti' = 1 /\ mi' = mi
              \/ /\ pc = "returned" /\ result = Ok
                 /\ ti' = ti + 1 /\ mi' = mi
                 /\ pc' = "callTarget"
       /\ pc' = "callTarget" =>
              /\ pc \in {"ensureWorktree", "returned"}
              /\ outcome'[ti'] = NoResult
              /\ ~issued'[ti']
              /\ \A t \in Targets :
                     /\ t < ti' => (outcome'[t] = Ok /\ log'.outcomes[t] # <<>>)
                     /\ t >= ti' => (outcome'[t] = NoResult /\ ~issued'[t]
                                      /\ log'.outcomes[t] = <<>>)]_vars

C12_Witness ==
    /\ pc = "callTarget"
    /\ mi = 2
    /\ ti = 2
    /\ outcome[1] = Ok
    /\ issued[1]
    /\ outcome[2] = NoResult

\* C13 (as stated): a second call of createGitBranchIfNotExists or of
\* createGitWorktreeIfNotExists with the same arguments runs no creating
\* command, returns no error and leaves the existing names as the first
\* call left them.
C13_Original ==
    \A k \in 2..Len(h.calls) :
        /\ ~h.calls[k].tried
        /\ ~h.calls[k].err
        /\ h.calls[k].after = h.calls[k - 1].after

\* C13 (amended): after a call of createGitBranchIfNotExists or of
\* createGitWorktreeIfNotExists that returned no error, the name exists,
\* and a further call with the same arguments whose existence check does
\* not itself fail runs no creating command, returns no error and leaves
\* the existing names unchanged; a call returns an error exactly when its
\* existence check fails or its creating command fails.
C13_Idempotent ==
    /\ \A k \in 1..Len(h.calls) :
          /\ ~h.calls[k].err => h.arg \in h.calls[k].after
          /\ h.calls[k].err =>
                 /\ h.calls[k].checkFailed \/ h.calls[k].tried
                 /\ h.calls[k].after = h.calls[k].before
    /\ \A k \in 2..Len(h.calls) :
          (~h.calls[k - 1].err /\ ~h.calls[k].checkFailed) =>
              /\ ~h.calls[k].tried
              /\ ~h.calls[k].err
              /\ h.calls[k].after = h.calls[k - 1].after

C13_Witness ==
    /\ h.fn = "worktree"
    /\ Len(h.calls) = 2
    /\ h.calls[1].tried
    /\ ~h.calls[1].err
    /\ h.calls[1].after # h.calls[1].before
    /\ ~h.calls[2].checkFailed
    /\ h.calls[2].after = h.calls[1].after

\* C14: for any current branch and home directory, two different entries of
\* the configured models list get different branch names and different
\* worktree paths (and one entry always gets the same ones).
C14_NamingInjective ==
    h.derived =>
        /\ h.a # h.b => /\ h.names.branchA # h.names.branchB
                         /\ h.names.pathA # h.names.pathB
        /\ h.a = h.b => /\ h.names.branchA = h.names.branchB
                         /\ h.names.pathA = h.names.pathB
        /\ \A i \in DOMAIN h.names.branchA : h.names.branchA[i] # ":"

C14_Witness ==
    /\ h.derived
    /\ h.a = 9
    /\ h.b = 10
    /\ h.base = <<"m", "/", "m">>
    /\ h.names.branchB = h.base \o <<"-", "o", "p", "e", "n", "r", "o", "u",
                                      "t", "e", "r", "-", "x", "-", "a", "i",
                                      "-", "g", "r", "o", "k", "-", "4">>
    /\ h.names.pathB = <<"/", "w", "o", "r", "k", "t", "r", "e", "e", "/">>
                          \o h.names.branchB

\* C15: when git stash, run after a failed validation, exits with status 0
\* on a tree that had nothing to stash, gitStashAll returns no error: in an
\* attempt before the last one the loop goes on to the next attempt (the
\* next aider command), in the last attempt it ends with the
\* maximum-attempts error; in neither case with a stash error.
C15_NothingToStashIsSuccess ==
    [][(pc = "stash" /\ StatusEmpty(tree) /\ ~last'.failed) =>
           /\ last' = Noted("stash", FALSE, "nothing")
           /\ tree' = tree
           /\ result' # Err("stash")
           /\ IF attempt < maxAttempts
                THEN /\ pc' = "agent"
                     /\ attempt' = attempt + 1
                     /\ result' = NoResult
                ELSE /\ pc' = "returned"
                     /\ result' = Err("maxAttempts")]_vars

C15_Witness ==
    /\ pc = "agent"
    /\ attempt = 2
    /\ last = Noted("stash", FALSE, "nothing")
    /\ n.stash = 1
    /\ n.agent = 1
    /\ StatusEmpty(tree)

\* the target loop of a model has ended and the log holds that session: main
\* is about to ensure the next model's branch, or has returned
SessionOver ==
    \/ pc = "ensureBranch" /\ mi > 1
    \/ pc = "exited" /\ exitCode = 0

\* C16 (as stated): when the session of a model is over, the log holds
\* exactly one outcome record for every configured target: Success,
\* Exhausted or Fatal for the targets up to the one that ended the session,
\* and a not-attempted record for every target after a failing one.
C16_Original ==
    SessionOver =>
        \A t \in Targets :
            /\ Len(log.outcomes[t]) = 1
            /\ IF t <= ti
                 THEN log.outcomes[t][1] \in {"Success", "Exhausted", "Fatal"}
                 ELSE log.outcomes[t][1] = "NotAttempted"

\* makeTargetBuild has returned from a call in which the pre-check failed,
\* exactly one attempt passed both query and build, and git status showed
\* changes (git commit was run); the attempts before it failed validation
\* and were stashed
ValidatedDirty ==
    /\ pc = "returned"
    /\ PrecheckFailed
    /\ n.passed = 1
    /\ n.commit = 1

\* commits made for the current (model, target) pair
PairCommits == {k \in DOMAIN commits : commits[k] = <<mi, ti>>}

\* C17 (as stated): if the pre-check fails, attempts 1..k-1 fail validation
\* and are stashed, and attempt k passes query and build with a non-empty
\* git status, makeTargetBuild returns (true, nil) after exactly k aider
\* commands, k-1 stash commands and one commit.
C17_Original ==
    ValidatedDirty =>
        /\ result = Ok
        /\ n.agent = attempt
        /\ n.stash = attempt - 1
        /\ Cardinality(PairCommits) = 1

\* C17 (amended): in that case exactly k aider commands, k-1 stash commands
\* and one git commit command have been run, with 1 <= k <= maxAttempts;
\* makeTargetBuild returns (true, nil) with one commit made when the git
\* commit command succeeds, and returns the commit error with no commit
\* made when it fails.
C17_SuccessAtAttemptK ==
    ValidatedDirty =>
        /\ attempt \in 1..maxAttempts
        /\ n.agent = attempt
        /\ n.stash = attempt - 1
        /\ n.stage = 1
        /\ last.cmd = "commit"
        /\ IF last.failed
             THEN result = Err("commit") /\ PairCommits = {}
             ELSE result = Ok /\ Cardinality(PairCommits) = 1

C17_Witness ==
    /\ ValidatedDirty
    /\ result = Ok
    /\ attempt = 3
    /\ n.agent = 3
    /\ n.stash = 2
    /\ Cardinality(PairCommits) = 1

\* Reading a commit message back: what follows "aider: model " up to the
\* next blank is the model it names, what follows " target " after that is
\* the target it names
MsgBody(msg) == SubSeq(msg, Len(<<"a", "i", "d", "e", "r", ":", " ", "m", "o", "d", "e", "l", " ">>) + 1,
                       Len(msg))

FirstBlank(s) ==
    IF \E i \in DOMAIN s : s[i] = " "
      THEN CHOOSE i \in DOMAIN s :
               s[i] = " " /\ \A j \in 1..(i - 1) : s[j] # " "
      ELSE Len(s) + 1

MsgModel(msg) == SubSeq(MsgBody(msg), 1, FirstBlank(MsgBody(msg)) - 1)

MsgTarget(msg) ==
    SubSeq(MsgBody(msg),
           FirstBlank(MsgBody(msg)) + Len(<<" ", "t", "a", "r", "g", "e", "t", " ">>),
           Len(MsgBody(msg)))

\* C18: a commit is made only by the git commit command of makeTargetBuild,
\* right after a successful git status of the attempt that validated; the
\* message of every such commit names the model ("openrouter/" + model) and
\* the target label of the pair being processed, and it is the message of
\* no other configured (model, target) pair.
C18_CommitMessageIdentifiesPair ==
    [][/\ (commits' # commits /\ commits' # <<>>) =>
              (pc = "commit" /\ ~last'.failed)
       /\ (log'.commits # log.commits /\ log'.commits # <<>>) =>
              (pc = "commit" /\ ~last'.failed)
       /\ (pc = "commit" /\ ~last'.failed) =>
              /\ last = Did("status", FALSE)
              /\ n.passed = 1
              /\ commits' = Append(commits, <<mi, ti>>)
              /\ Len(log'.commits) = Len(log.commits) + 1
              /\ SubSeq(log'.commits, 1, Len(log.commits)) = log.commits
              /\ LET msg == log'.commits[Len(log'.commits)]
                 IN  /\ MsgModel(msg) = llmModel(models[mi])
                     /\ MsgTarget(msg) = targetLabels[ti]
                     /\ \A m \in DOMAIN models, t \in DOMAIN targetLabels :
                            commitMsg(llmModel(models[m]), targetLabels[t]) = msg
                                => (m = mi /\ t = ti)]_vars

C18_Witness ==
    /\ pc = "returned"
    /\ mi = 2
    /\ ti = 2
    /\ last = Did("commit", FALSE)
    /\ commits = << <<2, 1>>, <<2, 2>> >>
    /\ Len(log.commits) = 2
    /\ MsgModel(log.commits[2]) = llmModel(models[2])
    /\ MsgTarget(log.commits[2]) = targetLabels[2]
    /\ MsgTarget(log.commits[1]) = targetLabels[1]

\* C19: when makeTargetBuild returns the maximum-attempts error, main logs
\* it for the target and goes on with the next model (or returns after the
\* last model) without setting a failure exit code; the process exits with
\* a non-zero code only after a failed start-up or session call, so a run
\* whose only failures are exhausted targets exits with code 0.
C19_ExhaustionIsReported ==
    [][/\ (pc = "returned" /\ result = Err("maxAttempts")) =>
              /\ n.agent = maxAttempts
              /\ GoesToNextModel
              /\ exitCode' \in {-1, 0}
              /\ log'.outcomes[ti] = <<"Exhausted">>
       /\ exitCode' \notin {-1, 0} =>
              /\ pc \in {"getwd", "getbranch", "homedir", "ensureBranch",
                          "ensureWorktree"}
              /\ last'.cmd \in MainCalls
              /\ last'.failed]_vars

C19_Witness ==
    /\ pc = "exited"
    /\ exitCode = 0
    /\ mi = NumModels
    /\ result = Err("maxAttempts")
    /\ log.outcomes[ti] = <<"Exhausted">>
    /\ n.agent = maxAttempts

\* C20 (as stated): the query of an attempt tells a target that is not found
\* from a broken query command: only the former is a failed validation that
\* is rolled back by git stash and retried with the next attempt.
C20_Original ==
    (pc = "stash" /\ last.cmd = "query") => last.note = "notFound"

\* C21: a branch is created only by the ensure step of the model it belongs
\* to, only when it does not exist, and it is never deleted, so it is
\* created at most once in a run; one call of makeTargetBuild runs at most
\* one git commit command; the commits on the current model's branch are
\* commits of different targets of that model, each of a target whose
\* makeTargetBuild call returned (true, nil).
C21_DurableRecord ==
    /\ [](/\ n.commit <= 1
          /\ \A j, k \in DOMAIN commits :
                j # k => commits[j] # commits[k]
          /\ \A k \in DOMAIN commits :
                /\ commits[k][1] = mi
                /\ outcome[commits[k][2]] = Ok)
    /\ [][/\ branches \subseteq branches'
          /\ branches' # branches =>
                 /\ pc = "ensureBranch"
                 /\ mi \notin branches
                 /\ branches' = branches \cup {mi}
          /\ commits' # commits =>
                 \/ commits' = <<>>
                 \/ /\ pc = "commit"
                    /\ commits' = Append(commits, <<mi, ti>>)
                    /\ result' = Ok]_vars

C21_Witness ==
    /\ pc = "exited"
    /\ exitCode = 0
    /\ branches = Models
    /\ commits = << <<NumModels, 1>>, <<NumModels, 2>> >>
    /\ n.commit = 1
    /\ \A t \in Targets : outcome[t] = Ok

\* C22: in the pre-check and in every attempt, a bazel build is run only
\* right after a bazel query of that stage that succeeded, in the same
\* worktree; after a failed query no build is run in that stage.
C22_TwoStageValidation ==
    /\ \A k \in DOMAIN trail :
          trail[k].cmd = "build" =>
              /\ k > 1
              /\ trail[k - 1] = Ran("query", FALSE, trail[k].dir)
    /\ \A k \in DOMAIN trail :
          (trail[k].cmd = "query" /\ trail[k].failed) =>
              \A j \in DOMAIN trail : j > k => trail[j].cmd # "build"
    /\ pc \in {"preBuild", "build"} =>
          (last.cmd = "query" /\ ~last.failed)

C22_Witness ==
    /\ pc = "stash"
    /\ pre = "queryFailed"
    /\ trail = <<Ran("agent", FALSE, 2), Ran("query", FALSE, 2),
                 Ran("build", TRUE, 2)>>

\* C23: a git add or git commit is run only in an attempt (never in the
\* pre-check) whose first three commands were aider, bazel query and bazel
\* build, in that order and all successful; no git stash is run in an
\* attempt before or after its git add or git commit.
C23_AgentSuccessNotTrusted ==
    \A k \in DOMAIN trail :
        trail[k].cmd \in {"stage", "commit"} =>
            /\ attempt >= 1
            /\ k > 3
            /\ trail[1] = Ran("agent", FALSE, trail[k].dir)
            /\ trail[2] = Ran("query", FALSE, trail[k].dir)
            /\ trail[3] = Ran("build", FALSE, trail[k].dir)
            /\ \A j \in DOMAIN trail : trail[j].cmd # "stash"

C23_Witness ==
    /\ pc = "returned"
    /\ result = Ok
    /\ attempt = 2
    /\ Len(trail) = 6
    /\ trail[1].cmd = "agent"
    /\ trail[4] = Ran("stage", FALSE, 1)
    /\ trail[6] = Ran("commit", FALSE, 1)

\* the current stage is an attempt: it began with an aider command
InAttempt == trail # <<>> /\ trail[1].cmd = "agent"

\* C24: in an attempt, a failed bazel query or bazel build is followed by
\* git stash as the very next command and by nothing else in that attempt;
\* when the aider command of attempt n >= 2 is about to run, the attempt
\* before it ended with its one git stash, which succeeded, so n - 1
\* stashes lie between the n - 1 earlier aider commands and this one; a
\* call that returns the maximum-attempts error has run maxAttempts aider
\* commands and maxAttempts stashes, the last of them after the last
\* attempt.
C24_RollbackBetweenAttempts ==
    /\ \A k \in DOMAIN trail :
          (InAttempt /\ trail[k].cmd \in {"query", "build"}
                     /\ trail[k].failed) =>
              \/ k = Len(trail) /\ pc = "stash"
              \/ k + 1 = Len(trail) /\ trail[k + 1].cmd = "stash"
    /\ Cardinality({k \in DOMAIN trail : trail[k].cmd = "stash"}) <= 1
    /\ pc = "stash" =>
          /\ InAttempt
          /\ trail[Len(trail)].cmd \in {"query", "build"}
          /\ trail[Len(trail)].failed
    /\ (pc = "agent" /\ attempt >= 2) =>
          /\ InAttempt
          /\ trail[Len(trail)] = Ran("stash", FALSE, call.worktreePath)
          /\ n.agent = attempt - 1
          /\ n.stash = attempt - 1
    /\ result = Err("maxAttempts") =>
          /\ n.agent = maxAttempts
          /\ n.stash = maxAttempts
          /\ trail[Len(trail)] = Ran("stash", FALSE, call.worktreePath)

C24_Witness ==
    /\ pc = "returned"
    /\ result = Err("maxAttempts")
    /\ n.stash = maxAttempts
    /\ trail = <<Ran("agent", FALSE, 1), Ran("query", FALSE, 1),
                 Ran("build", TRUE, 1), Ran("stash", FALSE, 1)>>

\* C25: when the aider command of attempt n >= 2 is about to run, the latest
\* command was the successful git stash of attempt n - 1 and the working
\* tree holds no tracked and no untracked change ('git status --porcelain'
\* would print nothing); nothing touches the tree between that stash and
\* the aider command.
C25_CleanRestart ==
    [][/\ (pc = "agent" /\ attempt >= 2) =>
              /\ last.cmd = "stash"
              /\ ~last.failed
              /\ StatusEmpty(tree)
       /\ (pc = "stash" /\ pc' = "agent") =>
              /\ tree' = Stashed(tree)
              /\ StatusEmpty(tree')
              /\ attempt' >= 2]_vars

C25_Witness ==
    /\ pc = "agent"
    /\ attempt = 3
    /\ last = Noted("stash", FALSE, "none")
    /\ StatusEmpty(tree)
    /\ n.stash = 2

\* C26: a failed bazel query or bazel build of an attempt returns nothing:
\* it leads to git stash, and a successful stash in attempt n < maxAttempts
\* leads to the aider command of attempt n + 1; a call that returns from
\* inside the loop before attempt maxAttempts returns success or the error
\* of aider, git stash, git add, git status or git commit, and the
\* maximum-attempts error is returned only after attempt maxAttempts.
C26_RetryableFailuresStayInside ==
    /\ [](/\ (pc = "returned" /\ attempt \in 1..(maxAttempts - 1)) =>
                 \/ result = Ok
                 \/ result.err \in {"aider", "stash", "add", "status",
                                     "commit"}
          /\ result = Err("maxAttempts") => attempt = maxAttempts)
    /\ [][/\ (pc \in {"query", "build"} /\ last'.failed) =>
                 /\ pc' = "stash"
                 /\ result' = NoResult
                 /\ attempt' = attempt
          /\ (pc = "stash" /\ ~last'.failed /\ attempt < maxAttempts) =>
                 /\ pc' = "agent"
                 /\ result' = NoResult
                 /\ attempt' = attempt + 1]_vars

C26_Witness ==
    /\ pc = "agent"
    /\ attempt = maxAttempts
    /\ n.stash = maxAttempts - 1
    /\ trail[2] = Ran("query", TRUE, 1)
    /\ result = NoResult

\* C27 (as stated): every call of makeTargetBuild runs the pre-check exactly
\* once.
C27_Original ==
    pc = "returned" => n.precheck = 1

\* C27 (amended): a call of makeTargetBuild runs the pre-check at most
\* once, and exactly once unless ensureBuildBazelExists fails (the call
\* then returns before the pre-check); the pre-check runs before the first
\* aider command and never after an aider or git stash command; every
\* command of the attempt loop other than aider, the query included, runs
\* in an attempt that began with a successful aider command.
C27_PrecheckRunsOnce ==
    /\ n.precheck <= 1
    /\ pc = "returned" =>
          (n.precheck = 1 <=> result # Err("ensureBuild"))
    /\ (n.agent > 0 \/ n.stash > 0 \/ attempt > 0) =>
          (n.precheck = 1 /\ pc \notin {"preQuery", "preBuild"})
    /\ pc \in {"preQuery", "preBuild"} => ~InAttempt
    /\ pc \in {"query", "build", "stash", "add", "status", "commit"} =>
          /\ InAttempt
          /\ trail[1] = Ran("agent", FALSE, call.worktreePath)
    /\ \A k \in DOMAIN trail :
          (InAttempt /\ trail[k].cmd = "query") =>
              (k = 2 /\ ~trail[1].failed)

C27_Witness ==
    /\ pc = "returned"
    /\ result = Ok
    /\ pre = "buildFailed"
    /\ n.precheck = 1
    /\ n.agent = 3
    /\ n.stash = 2
    /\ trail[2] = Ran("query", FALSE, 1)

\* C28: a failed pre-check, whether its query or its build fails, is not
\* fatal: the next step of the call is the aider command of attempt 1, and
\* no git stash command, no returned error and no outcome line comes in
\* between.
C28_PrecheckFailureNonFatal ==
    /\ [](/\ pre \in {"queryFailed", "buildFailed"} =>
                 (attempt >= 1 /\ n.precheck = 1)
          /\ (pc = "agent" /\ attempt = 1) =>
                 /\ pre \in {"queryFailed", "buildFailed"}
                 /\ last.failed /\ last.cmd \in {"query", "build"}
                 /\ n.agent = 0 /\ n.stash = 0
                 /\ result = NoResult /\ outcome[ti] = NoResult)
    /\ [][/\ (pc \in {"preQuery", "preBuild"} /\ last'.failed) =>
                 /\ pc' = "agent" /\ attempt' = 1
                 /\ n'.agent = 0 /\ n'.stash = 0
                 /\ result' = NoResult
                 /\ outcome' = outcome /\ log' = log
                 /\ tree' = tree /\ commits' = commits
          /\ (pc = "agent" /\ attempt = 1) =>
                 /\ last'.cmd = "agent" /\ n'.agent = 1 /\ n'.stash = 0]_vars

C28_Witness ==
    /\ pc = "query"
    /\ attempt = 1
    /\ pre = "buildFailed"
    /\ n.agent = 1
    /\ n.stash = 0
    /\ trail = <<Ran("agent", FALSE, 1)>>
    /\ result = NoResult

\* one call of each ensure function
EnsuredOnce == [branch |-> 1, worktree |-> 1]

\* C29 (as stated): in every run, each model's branch and worktree are
\* ensured exactly once.
C29_Original ==
    pc = "exited" => \A m \in Models : ensured[m] = EnsuredOnce

\* C29 (amended): the branch and the worktree of a model are each ensured
\* at most once per run, the worktree only after the branch, and both,
\* successfully, before any call of makeTargetBuild for that model; every
\* call for that model, and every command of it, runs in that model's
\* worktree path; the session of the next model is ensured only after the
\* target loop of the current model has ended; a run that ends with exit
\* code 0 has ensured every model's session, and a failed ensure ends the
\* run with exit code 1, the later sessions never ensured.
C29_SessionLifecycle ==
    /\ [](/\ \A m \in Models :
                 /\ ensured[m].worktree <= ensured[m].branch
                 /\ ensured[m].branch <= 1
                 /\ m < mi => ensured[m] = EnsuredOnce
                 /\ m > mi => ensured[m] = NoneEnsured[m]
          /\ pc \in LoopPcs \cup {"callTarget", "returned"} =>
                 /\ ensured[mi] = EnsuredOnce
                 /\ mi \in branches /\ mi \in worktrees
          /\ pc \in LoopPcs \cup {"returned"} =>
                 /\ call = [worktreePath |-> mi, llmModel |-> mi,
                            target |-> ti]
                 /\ \A k \in DOMAIN trail : trail[k].dir = mi
          /\ (pc = "exited" /\ exitCode = 0) =>
                 \A m \in Models : ensured[m] = EnsuredOnce)
    /\ [][/\ ensured' # ensured =>
                 /\ pc \in {"ensureBranch", "ensureWorktree"}
                 /\ \A m \in Models \ {mi} : ensured'[m] = ensured[m]
          /\ pc' = "ensureBranch" =>
                 \/ pc = "homedir" /\ mi' = 1
                 \/ pc = "returned" /\ mi' = mi + 1
          /\ pc = "ensureBranch" =>
                 /\ ensured[mi] = NoneEnsured[mi]
                 /\ ensured'[mi] = [branch |-> 1, worktree |-> 0]
                 /\ IF last'.failed
                      THEN pc' = "exited" /\ exitCode' = 1
                      ELSE pc' = "ensureWorktree"
          /\ pc = "ensureWorktree" =>
                 /\ ensured'[mi] = EnsuredOnce
                 /\ IF last'.failed
                      THEN pc' = "exited" /\ exitCode' = 1
                      ELSE pc' = "callTarget" /\ ti' = 1]_vars

C29_Witness ==
    /\ mi = NumModels
    /\ ti = NumTargets
    /\ pc = "build"
    /\ \A m \in Models : ensured[m] = EnsuredOnce
    /\ call.worktreePath = NumModels
    /\ trail = <<Ran("agent", FALSE, NumModels), Ran("query", FALSE, NumModels)>>

\* the commands the current makeTargetBuild call has issued, all kinds
Commands == n.precheck + n.agent + n.stash + n.stage + n.commit

\* C30: the run has one thread of control and every command is a blocking
\* call, so a step issues at most one command; a command in a worktree is
\* issued only inside makeTargetBuild, called for the model that owns the
\* worktree, and only while no later model's session has been touched.
C30_NoConcurrentMutation ==
    /\ [](/\ pc \in LoopPcs =>
                 (call.worktreePath = mi /\ call.llmModel = mi)
          /\ \A k \in DOMAIN trail :
                 /\ trail[k].dir = call.llmModel
                 /\ pc \in LoopPcs =>
                        \A m \in Models :
                            m > trail[k].dir => ensured[m].branch = 0)
    /\ [][/\ Commands' <= Commands + 1
          /\ Len(trail') <= Len(trail) + 1
          /\ (trail' # trail /\ trail' # <<>>) =>
                 LET op == trail'[Len(trail')]
                 IN  /\ pc \in LoopPcs
                     /\ last'.cmd = op.cmd
                     /\ op.dir = mi /\ mi' = mi
                     /\ ensured[op.dir] = EnsuredOnce
                     /\ \A m \in Models :
                            m > op.dir => ensured'[m] = NoneEnsured[m]
          /\ pc = "callTarget" =>
                 /\ call'.worktreePath = mi
                 /\ \A m \in Models : m > mi => ensured'[m] = NoneEnsured[m]
          /\ ensured' # ensured =>
                 /\ trail' = trail /\ Commands' = Commands
                 /\ \A m \in Models : m < mi => ensured'[m] = ensured[m]]_vars

C30_Witness ==
    /\ mi = NumModels
    /\ NumModels > 1
    /\ ensured[1] = EnsuredOnce
    /\ pc = "returned"
    /\ result = Ok
    /\ n.commit = 1
    /\ trail # <<>>
    /\ trail[Len(trail)] = Ran("commit", FALSE, NumModels)

\* the calls of main before the model loop
StartUpCalls == {"getwd", "getbranch", "homedir"}

\* C31: when os.Getwd, getGitBranch or os.UserHomeDir fails the process
\* exits with code 1 at once: no branch or worktree has been ensured or
\* created, no makeTargetBuild call has been made and no command issued,
\* and nothing happens after the exit.
C31_StartUpFailureIsFatal ==
    /\ []((last.cmd \in StartUpCalls /\ last.failed) =>
              /\ pc = "exited" /\ exitCode = 1
              /\ ensured = NoneEnsured
              /\ n = NoCalls /\ trail = <<>>
              /\ issued = NoneIssued /\ outcome = NoOutcome
              /\ commits = <<>> /\ log = NoLog)
    /\ [][/\ pc \in {"getwd", "getbranch", "homedir"} =>
                 /\ last'.cmd \in StartUpCalls
                 /\ branches' = branches /\ worktrees' = worktrees
                 /\ tree' = tree /\ ensured' = NoneEnsured
                 /\ last'.failed => (pc' = "exited" /\ exitCode' = 1)
          /\ pc # "exited"]_vars

C31_Witness ==
    /\ pc = "exited"
    /\ exitCode = 1
    /\ last = Did("homedir", TRUE)
    /\ ensured = NoneEnsured
    /\ branches = {}
    /\ worktrees = {}

\* C32: no step of the run removes a branch, a worktree, a commit of the
\* current model's branch or a stash entry; the steps of a failed attempt
\* (aider, query, build, git stash) leave branches, worktrees and commits
\* as they are and add at most one stash entry, added by the git stash
\* command when it succeeds on a tree with changes.
C32_MonotoneVcsState ==
    /\ [](n.pushed <= n.stash /\ n.stash <= maxAttempts)
    /\ [][/\ branches \subseteq branches'
          /\ worktrees \subseteq worktrees'
          /\ mi' = mi =>
                 /\ Len(commits') >= Len(commits)
                 /\ SubSeq(commits', 1, Len(commits)) = commits
          /\ pc # "callTarget" => n'.pushed >= n.pushed
          /\ pc # "stash" => n'.pushed \in {n.pushed, 0}
          /\ pc \in {"agent", "query", "build", "stash"} =>
                 /\ branches' = branches /\ worktrees' = worktrees
                 /\ commits' = commits
                 /\ n'.pushed \in {n.pushed, n.pushed + 1}
          /\ (pc = "stash" /\ n'.pushed # n.pushed) =>
                 /\ ~last'.failed /\ ~StatusEmpty(tree)
                 /\ StatusEmpty(tree')]_vars

C32_Witness ==
    /\ pc = "agent"
    /\ attempt = 3
    /\ n.stash = 2
    /\ n.pushed = 1
    /\ branches = Models
    /\ worktrees = Models
    /\ last = Noted("stash", FALSE, "nothing")

\* C33: when every external call returns, the run ends; no call of
\* makeTargetBuild runs aider more than maxAttempts times; there is at
\* most one call per (model, target) pair, and the run as a whole runs
\* aider at most |models| * |targets| * maxAttempts times.
C33_Termination ==
    /\ <>(h.at = "exited")
    /\ [](/\ h.agents <= maxAttempts
          /\ h.attempt <= maxAttempts
          /\ h.at \in LoopPcs \ {"preQuery", "preBuild"} =>
                 h.agents \in {h.attempt - 1, h.attempt}
          /\ h.calls <= (h.model - 1) * NumTargets + h.target
          /\ h.calls <= NumModels * NumTargets
          /\ h.total <= h.calls * maxAttempts
          /\ h.total <= NumModels * NumTargets * maxAttempts)

C33_Witness ==
    /\ h.at = "exited"
    /\ h.code = 0
    /\ h.calls = NumModels * NumTargets
    /\ h.total = NumModels * NumTargets * maxAttempts

\* C34: in a run where the tree of every session has no uncommitted change
\* at the start of the session's first target, every makeTargetBuild call
\* that returns success, through the pre-check or through the commit,
\* leaves the tree without uncommitted change; main changes nothing between
\* two calls, so every later target of the session starts on such a tree.
C34_CleanHandOver ==
    /\ [](/\ (pc = "returned" /\ result = Ok) => StatusEmpty(tree)
          /\ pc = "callTarget" => StatusEmpty(tree))
    /\ [][/\ pc = "returned" => tree' = tree
          /\ (pc = "callTarget" /\ ti > 1) => outcome[ti - 1] = Ok]_vars

C34_Witness ==
    /\ pc = "callTarget"
    /\ ti = NumTargets
    /\ NumTargets > 1
    /\ StatusEmpty(tree)
    /\ n.commit = 1
    /\ pre # "passed"

\* C35 (as stated): whenever makeTargetBuild is about to run aider, at any
\* attempt, the BUILD.bazel file of the target's package, which is passed
\* to aider, exists in the working tree.
C35_Original ==
    pc = "agent" => tree.build[Pkg(call.target)] # "absent"

\* C36: when ensureBuildBazelExists fails, makeTargetBuild returns its
\* error at once, before any query, build, aider, git stash, git add or
\* git commit command and with the tree as it was; main handles it like any
\* other failed target: the remaining targets of the model are skipped and
\* the run goes on with the next model, or ends with exit code 0 after the
\* last one.
C36_PlaceholderFailure ==
    /\ []((last = Did("ensureBuild", TRUE)) =>
              /\ result = Err("ensureBuild")
              /\ n = NoCalls /\ trail = <<>>
              /\ ~issued[ti]
              /\ pc \in {"returned", "ensureBranch", "exited"}
              /\ pc = "exited" => (exitCode = 0 /\ mi = NumModels))
    /\ [][/\ (pc = "callTarget" /\ last'.failed) =>
                 /\ pc' = "returned"
                 /\ result' = Err("ensureBuild")
                 /\ tree' = tree /\ commits' = commits
                 /\ n' = NoCalls /\ trail' = <<>>
          /\ (pc = "returned" /\ result = Err("ensureBuild")) =>
                 /\ ti' = ti
                 /\ IF mi < NumModels
                      THEN /\ mi' = mi + 1 /\ pc' = "ensureBranch"
                           /\ exitCode' = exitCode
                      ELSE pc' = "exited" /\ exitCode' = 0
                 /\ log'.outcomes[ti] = <<"Fatal">>
                 /\ \A t \in Targets : t > ti => log'.outcomes[t] = <<>>]_vars

C36_Witness ==
    /\ pc = "ensureBranch"
    /\ mi = NumModels
    /\ NumModels > 1
    /\ ti = 1
    /\ NumTargets > 1
    /\ last = Did("ensureBuild", TRUE)
    /\ result = Err("ensureBuild")
    /\ log.outcomes[1] = <<"Fatal">>

\* C37: createModuleFileIfNecessary issues 'git commit' only when
\* MODULE.bazel was absent, this call created it and the 'bazel mod explain'
\* that followed succeeded; when MODULE.bazel exists already the call
\* creates nothing, commits nothing and leaves the file as it is; so a call
\* that follows a call that returned no error changes nothing.
C37_ModuleBootstrap ==
    /\ \A k \in 1..Len(h.calls) :
          LET c == h.calls[k]
          IN  /\ c.did.issued =>
                     /\ c.before = "absent" /\ c.did.created
                     /\ c.did.explained /\ ~c.explainErr
              /\ c.did.created => c.before = "absent"
              /\ c.before # "absent" =>
                     /\ ~c.did.created /\ ~c.did.issued
                     /\ c.did.module = c.before
              /\ ~c.did.err => c.did.module # "absent"
    /\ \A k \in 2..Len(h.calls) :
          ~h.calls[k - 1].did.err =>
              /\ h.calls[k].before = h.calls[k - 1].did.module
              /\ h.calls[k].did.module = h.calls[k].before
              /\ ~h.calls[k].did.created
              /\ ~h.calls[k].did.issued

C37_Witness ==
    /\ Len(h.calls) = 2
    /\ h.calls[1].before = "absent"
    /\ h.calls[1].did = Migrated(FALSE, "committed", TRUE, TRUE, TRUE)
    /\ h.calls[2].did = Migrated(FALSE, "committed", FALSE, TRUE, FALSE)

\* C38 (as stated): when rules_rust is already reported,
\* addRulesRustDependencyIfNecessary writes and commits nothing; otherwise
\* it appends the block at most once and issues 'git commit' only when the
\* second check reports rules_rust; and whenever it returns an error,
\* MODULE.bazel is as it was before the call.
C38_Original ==
    \A k \in 1..Len(h.calls) :
        LET c == h.calls[k]
        IN  /\ c.first = "listed" =>
                   (c.did.blocks = c.blocks /\ ~c.did.issued)
            /\ c.did.blocks \in {c.blocks, c.blocks + 1}
            /\ c.did.issued =>
                   (c.did.blocks = c.blocks + 1 /\ c.second = "listed")
            /\ c.did.err => c.did.blocks = c.blocks

\* the first crate whose dependency lookup fails, 0 when none does
FirstFailing(crates) ==
    IF \E i \in DOMAIN crates : crates[i].err
      THEN CHOOSE i \in DOMAIN crates :
             /\ crates[i].err
             /\ \A j \in 1..(i - 1) : ~crates[j].err
      ELSE 0

\* C39: for a non-empty crate list whose lookups all succeed,
\* getCrateWithFewestDependencies returns the first crate in list order
\* whose dependency count is the least of all; for an empty list it returns
\* the empty name and no error; when a lookup fails it returns an error and
\* no crate, having looked up no crate after the first failing one.
C39_FewestDependencies ==
    (h.ret # NotCalled /\ ~h.namesErr) =>
        LET crates == h.crates
            f == FirstFailing(crates)
        IN  /\ Len(crates) = 0 => h.ret = Fewest(0, FALSE, 0)
            /\ f > 0 => h.ret = Fewest(0, TRUE, f)
            /\ (Len(crates) > 0 /\ f = 0) =>
                   /\ ~h.ret.err
                   /\ h.ret.name \in DOMAIN crates
                   /\ h.ret.looked = Len(crates)
                   /\ \A j \in DOMAIN crates :
                          /\ crates[j].deps >= crates[h.ret.name].deps
                          /\ j < h.ret.name =>
                                 crates[j].deps > crates[h.ret.name].deps

C39_Witness ==
    /\ h.ret = Fewest(2, FALSE, 3)
    /\ Len(h.crates) = 3
    /\ h.crates[1].deps = 2
    /\ h.crates[2].deps = 1
    /\ h.crates[3].deps = 1

====
